---- MODULE Spec2Model ----
(***************************************************************************)
(* A model of the Jellyfish core of fossil-ai: the memory store of the     *)
(* linear + attention model, its save/load file format, the SHA-256 based  *)
(* audit objects and the training ledger.                                  *)
(*                                                                         *)
(* Conventions.  C arrays indexed from 0 that are only walked in order are *)
(* sequences indexed from 1; the ring model->memory[] is a function on     *)
(* 0..MAX-1 because its index arithmetic (memory_len % MAX) is what the    *)
(* model is about.  A float is a fixed-point integer in units of 1/FScale. *)
(* A file is a sequence of bytes.  C strings are sequences of character    *)
(* codes without the terminating NUL.                                      *)
(***************************************************************************)
EXTENDS Integers, Sequences, FiniteSets, TLC

VARIABLES
    model,        \* the fossil_ai_jellyfish_model_t under test (linear + attention variant)
    ctx,          \* the fossil_ai_jellyfish_context_t passed to infer
    clock,        \* what time(NULL) returns (the calls of one run fall in one second)
    ret,          \* the last call and what it returned
    nins,         \* ghost: number of add_memory executions that stored a record
    slot_ins,     \* ghost: for each ring slot, the number of the insert it holds (-1: none)
    last_idx,     \* ghost: the slot written by the last insert (-1: none)
    disk,         \* the model file: [exists, bytes]
    loaded,       \* what the last load_model returned: [ok, m]
    saved,        \* ghost: the model as it was when save_model last wrote the file
    corrupt,      \* ghost: how the file was altered after the save
    logs,         \* the training logs: model id -> [exists, bytes] of its log file
    prev_logs,    \* ghost: the logs before the last call
    writers,      \* the train calls in progress in the writer processes, with ghosts
    hash_static,  \* compute_sha256's static unsigned char hash[32]
    audits,       \* the live fossil_ai_jellyfish_audit_t objects
    held,         \* hashes returned to the caller and still held by it
    blobs,        \* the blobs of the fossil_ai_jellyfish_context_t that is hashed
    rng,          \* the state of the C library's rand(), shared by every caller
    kernel,       \* the kernel's static g_kernel, the nodes it points to, and ghosts
    threads,      \* the threads calling into the kernel: where each one is
    session,      \* the chat session under test
    detector      \* the anomaly detector under test

vars == <<model, ctx, clock, ret, nins, slot_ins, last_idx, disk, loaded, saved,
          corrupt, logs, prev_logs, writers, hash_static, audits, held, blobs,
          rng, kernel, threads, session, detector>>

memVars    == <<model, ctx, clock, nins, slot_ins, last_idx>>
diskVars   == <<disk, loaded, saved, corrupt>>
ledgerVars == <<logs, prev_logs, writers>>
hashVars   == <<hash_static, audits, held, blobs>>
sysVars    == <<rng, kernel, threads, session, detector>>

-----------------------------------------------------------------------------
(* Sizes.  The program's capacities are scaled down; each is a bound.      *)

\* FOSSIL_AI_JELLYFISH_MAX_MEMORY (1024 in the source), scaled.
MaxMemory == 4
\* FOSSIL_AI_JELLYFISH_EMBED_SIZE (64 in the source), scaled.
EmbedSize == 2
\* sizeof(model->name) (128 in the source), scaled.
NameLen == 3
\* One unit of the fixed-point floats: the float 1.0f.
FScale == 64
\* time(NULL) returns a value in 0..MaxTime.
MaxTime == 1

\* The number of neighbours predict blends.
TopK == 3

\* Inserts stop two past the capacity: the ring has wrapped twice by then.
MaxInserts == MaxMemory + 2

Min(a, b) == IF a < b THEN a ELSE b

\* The record of a call: the function, what it returned, what it wrote to the
\* caller's output buffer, and which argument (if any) was NULL.
Ret(fn, rc, out, null) == [fn |-> fn, rc |-> rc, out |-> out, null |-> null]

Zeros(n) == [i \in 1..n |-> 0]

\* The vector with 1.0f at position k and 0.0f elsewhere, EmbedSize long.
UnitVec(k) == [i \in 1..EmbedSize |-> IF i = k THEN FScale ELSE 0]

-----------------------------------------------------------------------------
(* The model object.                                                       *)

\* One calloc'ed fossil_ai_jellyfish_memory_t.
ZeroMemory == [embedding |-> Zeros(EmbedSize), output |-> Zeros(EmbedSize), timestamp |-> 0]

\* strncpy(model->name, name, sizeof(model->name)-1) into calloc'ed storage:
\* at most NameLen-1 characters, NUL padded to NameLen bytes.
NameField(name) ==
    [i \in 1..NameLen |-> IF i <= Len(name) /\ i <= NameLen - 1 THEN name[i] ELSE 0]

fossil_ai_jellyfish_create_model(name, input_size, output_size) ==
    [name           |-> NameField(name),
     version        |-> 1,
     input_size     |-> input_size,
     output_size    |-> output_size,
     internal_state |-> Zeros(input_size * output_size),
     memory         |-> [i \in 0..(MaxMemory - 1) |-> ZeroMemory],
     memory_len     |-> 0]

\* The placeholder where no model is held.
NoModel == fossil_ai_jellyfish_create_model(<<>>, 0, 0)

\* fossil_ai_jellyfish_copy(dst, src, len): the first len entries of dst replaced.
fossil_ai_jellyfish_copy(dst, src, len) ==
    [i \in 1..Len(dst) |-> IF i <= len THEN src[i] ELSE dst[i]]

\* Integer square root (sqrtf on fixed-point values, rounded down).
RECURSIVE ISqrtFrom(_, _, _)
ISqrtFrom(n, lo, hi) ==
    IF lo = hi THEN lo
    ELSE LET mid == (lo + hi + 1) \div 2
         IN  IF mid * mid > n THEN ISqrtFrom(n, lo, mid - 1) ELSE ISqrtFrom(n, mid, hi)
ISqrt(n) == ISqrtFrom(n, 0, n)

RECURSIVE SumSeq(_)
SumSeq(s) == IF s = <<>> THEN 0 ELSE Head(s) + SumSeq(Tail(s))

\* sqrtf(sum of squared differences) over the first len entries.
fossil_ai_jellyfish_l2_distance(a, b, len) ==
    ISqrt(SumSeq([i \in 1..len |-> (a[i] - b[i]) * (a[i] - b[i])]))

\* expf(x) for x <= 0 on fixed-point values: 1/(1 + |x| + x^2/2), rounded down.
ExpF(x) == (2 * FScale * FScale * FScale) \div (2 * FScale * FScale - 2 * FScale * x + x * x)

SeqMax(s) == CHOOSE m \in {s[i] : i \in 1..Len(s)} : \A i \in 1..Len(s) : s[i] <= m

\* out[i] = expf(scores[i] - max) / sum
fossil_ai_jellyfish_softmax(scores) ==
    LET max == SeqMax(scores)
        e   == [i \in 1..Len(scores) |-> ExpF(scores[i] - max)] \o <<>>
        sum == SumSeq(e)
    IN  [i \in 1..Len(scores) |-> (e[i] * FScale) \div sum]

-----------------------------------------------------------------------------
(* Memory ring and inference.                                              *)

\* add_memory without its "if (model->memory_len < MAX)" before the increment.
AddMemoryStore_unguarded(m, input, output, embed_len, now) ==
    LET idx == m.memory_len % MaxMemory
    IN  [m EXCEPT !.memory[idx] = [embedding |-> input, output |-> output, timestamp |-> now],
                  !.memory_len = m.memory_len + 1]

\* add_memory that, once the store is full, overwrites the last slot.
AddMemoryStore_lastSlot(m, input, output, embed_len, now) ==
    LET safe0    == IF embed_len > EmbedSize THEN EmbedSize ELSE embed_len
        safe_len == IF m.output_size < safe0 THEN m.output_size ELSE safe0
        idx      == IF m.memory_len < MaxMemory THEN m.memory_len ELSE MaxMemory - 1
        rec      == [embedding |-> fossil_ai_jellyfish_copy(m.memory[idx].embedding, input, safe_len),
                     output    |-> fossil_ai_jellyfish_copy(m.memory[idx].output, output, safe_len),
                     timestamp |-> now]
    IN  [m EXCEPT !.memory[idx] = rec,
                  !.memory_len = IF m.memory_len < MaxMemory THEN m.memory_len + 1
                                 ELSE m.memory_len]

\* The stores of add_memory on a non-null model: the record at slot
\* memory_len % MAX gets the first safe_len entries of input and output and the
\* current time; memory_len grows while it is below MAX.
AddMemoryStore(m, input, output, embed_len, now) ==
    LET safe0    == IF embed_len > EmbedSize THEN EmbedSize ELSE embed_len
        safe_len == IF m.output_size < safe0 THEN m.output_size ELSE safe0
        idx      == m.memory_len % MaxMemory
        rec      == [embedding |-> fossil_ai_jellyfish_copy(m.memory[idx].embedding, input, safe_len),
                     output    |-> fossil_ai_jellyfish_copy(m.memory[idx].output, output, safe_len),
                     timestamp |-> now]
    IN  [m EXCEPT !.memory[idx] = rec,
                  !.memory_len = IF m.memory_len < MaxMemory THEN m.memory_len + 1
                                 ELSE m.memory_len]

\* The ghost bookkeeping of one stored record: it went to slot memory_len % MAX
\* of the model as it was before the store.
GhostInsert(m) ==
    /\ nins' = nins + 1
    /\ last_idx' = m.memory_len % MaxMemory
    /\ slot_ins' = [slot_ins EXCEPT ![m.memory_len % MaxMemory] = nins]

Alive == ret.rc \notin {"SIGSEGV", "SIGABRT"}

\* bool fossil_ai_jellyfish_add_memory(model, input, output, embed_len)
fossil_ai_jellyfish_add_memory(null, input, output, embed_len) ==
    /\ Alive
    /\ nins < MaxInserts
    /\ IF null \in {"model", "input", "output"}
       THEN /\ ret' = Ret("add_memory", "false", <<>>, null)
            /\ UNCHANGED memVars
       ELSE /\ model' = AddMemoryStore(model, input, output, embed_len, clock)
            /\ GhostInsert(model)
            /\ ret' = Ret("add_memory", "true", <<input, output, embed_len>>, null)
            /\ UNCHANGED <<ctx, clock>>
    /\ UNCHANGED <<diskVars, ledgerVars, hashVars, sysVars>>

\* Step 1 of infer: output[j] = sum_i weights[j*in_size + i] * input[i].
LinearOut(m, input) ==
    [j \in 1..m.output_size |->
        SumSeq([i \in 1..m.input_size |->
                  m.internal_state[(j - 1) * m.input_size + i] * input[i]]) \div FScale]

\* Step 2 of infer: the softmax-weighted blend of all memory_len stored outputs,
\* mixed half and half with the linear output on the first mem_vec_len entries.
InferOut(m, input) ==
    LET lin         == LinearOut(m, input)
        mem_vec_len == IF m.output_size < EmbedSize THEN m.output_size ELSE EmbedSize
        scores      == [k \in 1..m.memory_len |->
                          0 - fossil_ai_jellyfish_l2_distance(input, m.memory[k - 1].embedding,
                                                              mem_vec_len)] \o <<>>
        attn        == fossil_ai_jellyfish_softmax(scores) \o <<>>
        blend(j)    == SumSeq([k \in 1..m.memory_len |->
                                 (m.memory[k - 1].output[j] * attn[k]) \div FScale])
    IN  IF m.memory_len > 0
        THEN [j \in 1..m.output_size |->
                 IF j <= mem_vec_len THEN (lin[j] + blend(j)) \div 2 ELSE lin[j]]
        ELSE lin

\* bool fossil_ai_jellyfish_infer(model, ctx, input, output): the null checks
\* cover model, input and output; ctx is dereferenced unchecked after the
\* record has been stored.
fossil_ai_jellyfish_infer(null, input) ==
    /\ Alive
    /\ nins < MaxInserts
    /\ IF null \in {"model", "input", "output"}
       THEN /\ ret' = Ret("infer", "false", <<>>, null)
            /\ UNCHANGED memVars
       ELSE LET output == InferOut(model, input)
            IN  /\ model' = AddMemoryStore(model, input, output, model.output_size, clock)
                /\ GhostInsert(model)
                /\ UNCHANGED clock
                /\ IF null = "ctx"
                   THEN /\ ret' = Ret("infer", "SIGSEGV", <<input, output>>, null)
                        /\ UNCHANGED ctx
                   ELSE /\ ret' = Ret("infer", "true", <<input, output>>, null)
                        /\ ctx' = [ctx EXCEPT !.timestamp = clock]
    /\ UNCHANGED <<diskVars, ledgerVars, hashVars, sysVars>>

-----------------------------------------------------------------------------
(* The model file.  fwrite and fread move raw object bytes: integers are   *)
(* written little-endian in their C width, a float as the four bytes of    *)
(* its 32-bit pattern (here the two's complement of the fixed-point        *)
(* value).                                                                 *)

\* FOSSIL_AI_JELLYFISH_MAGIC, 'JELY'
FOSSIL_AI_JELLYFISH_MAGIC == 1245007961
FOSSIL_AI_JELLYFISH_VERSION == 1

\* sizeof(uint32_t), sizeof(size_t) and sizeof(int64_t), sizeof(float)
U32Bytes == 4
SizeBytes == 8
FloatBytes == 4

\* v in w little-endian bytes (v >= 0).
RECURSIVE EncLE(_, _)
EncLE(v, w) == IF w = 0 THEN <<>> ELSE <<v % 256>> \o EncLE(v \div 256, w - 1)

\* Sizes at or above 2^24 are all kept as this one value.
HugeSize == 256 * 256 * 256

\* The value of a little-endian unsigned field, saturated at HugeSize.
DecLE(b) ==
    IF \E i \in 4..Len(b) : b[i] # 0
    THEN HugeSize
    ELSE SumSeq([i \in 1..Min(3, Len(b)) |->
                   b[i] * (IF i = 1 THEN 1 ELSE IF i = 2 THEN 256 ELSE 65536)])

EncFloat(f) == EncLE(f % HugeSize, 3) \o <<(f \div HugeSize) % 256>>

DecFloat(b) ==
    b[1] + 256 * b[2] + 65536 * b[3] + HugeSize * (IF b[4] >= 128 THEN b[4] - 256 ELSE b[4])

\* The product of two 8-byte little-endian unsigned integers modulo 2^64:
\* size_t weight_count = model->input_size * model->output_size.
RECURSIVE MulFrom(_, _, _, _)
MulFrom(a, b, k, carry) ==
    IF k > SizeBytes THEN <<>>
    ELSE LET t == SumSeq([i \in 1..k |-> a[i] * b[k + 1 - i]]) + carry
         IN  <<t % 256>> \o MulFrom(a, b, k + 1, t \div 256)
MulSize(a, b) == MulFrom(a, b, 1, 0)

RECURSIVE Flatten(_)
Flatten(ss) == IF ss = <<>> THEN <<>> ELSE Head(ss) \o Flatten(Tail(ss))

EncFloats(fs) == Flatten([i \in 1..Len(fs) |-> EncFloat(fs[i])])

\* sizeof(fossil_ai_jellyfish_memory_t): two float arrays and an int64_t.
RecBytes == 2 * EmbedSize * FloatBytes + SizeBytes

EncMemory(r) == EncFloats(r.embedding) \o EncFloats(r.output) \o EncLE(r.timestamp, SizeBytes)

DecFloats(b, n) == [i \in 1..n |-> DecFloat(SubSeq(b, (i - 1) * FloatBytes + 1, i * FloatBytes))]

DecMemory(b) ==
    [embedding |-> DecFloats(SubSeq(b, 1, EmbedSize * FloatBytes), EmbedSize),
     output    |-> DecFloats(SubSeq(b, EmbedSize * FloatBytes + 1, 2 * EmbedSize * FloatBytes),
                             EmbedSize),
     timestamp |-> DecLE(SubSeq(b, 2 * EmbedSize * FloatBytes + 1, RecBytes))]

\* Offset of the first memory record: magic, version, the two sizes, the name
\* and memory_len come before it.
HeaderBytes == 2 * U32Bytes + 2 * SizeBytes + NameLen + SizeBytes

\* save_model with the header written after the memory records.
SaveBytes_headerLast(m) ==
    LET mem_len == IF m.memory_len > MaxMemory THEN MaxMemory ELSE m.memory_len
    IN  EncLE(FOSSIL_AI_JELLYFISH_MAGIC, U32Bytes)
        \o EncLE(FOSSIL_AI_JELLYFISH_VERSION, U32Bytes)
        \o EncLE(m.input_size, SizeBytes)
        \o EncLE(m.output_size, SizeBytes)
        \o m.name
        \o Flatten([k \in 1..mem_len |-> EncMemory(m.memory[k - 1])])
        \o EncLE(m.memory_len, SizeBytes)
        \o EncFloats(m.internal_state)

\* What fossil_ai_jellyfish_save_model writes for model m.
SaveBytes(m) ==
    LET mem_len == IF m.memory_len > MaxMemory THEN MaxMemory ELSE m.memory_len
    IN  EncLE(FOSSIL_AI_JELLYFISH_MAGIC, U32Bytes)
        \o EncLE(FOSSIL_AI_JELLYFISH_VERSION, U32Bytes)
        \o EncLE(m.input_size, SizeBytes)
        \o EncLE(m.output_size, SizeBytes)
        \o m.name
        \o EncLE(m.memory_len, SizeBytes)
        \o Flatten([k \in 1..mem_len |-> EncMemory(m.memory[k - 1])])
        \o EncFloats(m.internal_state)

NullLoad == [ok |-> FALSE, m |-> NoModel]

\* What fossil_ai_jellyfish_load_model returns for a file holding bytes b: each
\* fread that comes back short frees the model and returns NULL.  calloc0_null
\* says whether calloc(0, sizeof(float)) returns NULL in this build.
LoadBytes(b, calloc0_null) ==
    LET n          == Len(b)
        magic      == SubSeq(b, 1, U32Bytes)
        version    == SubSeq(b, U32Bytes + 1, 2 * U32Bytes)
        o_in       == 2 * U32Bytes
        o_out      == o_in + SizeBytes
        o_name     == o_out + SizeBytes
        o_len      == o_name + NameLen
        in_bytes   == SubSeq(b, o_in + 1, o_in + SizeBytes)
        out_bytes  == SubSeq(b, o_out + 1, o_out + SizeBytes)
        declared   == DecLE(SubSeq(b, o_len + 1, HeaderBytes))
        mem_len    == IF declared > MaxMemory THEN MaxMemory ELSE declared
        w_off      == HeaderBytes + mem_len * RecBytes
        weight_count == DecLE(MulSize(in_bytes, out_bytes))
    IN  IF n < U32Bytes THEN NullLoad
        ELSE IF n < 2 * U32Bytes THEN NullLoad
        ELSE IF magic # EncLE(FOSSIL_AI_JELLYFISH_MAGIC, U32Bytes)
                \/ version # EncLE(FOSSIL_AI_JELLYFISH_VERSION, U32Bytes)
             THEN NullLoad
        ELSE IF n < o_out THEN NullLoad
        ELSE IF n < o_name THEN NullLoad
        ELSE IF n < o_len THEN NullLoad
        ELSE IF n < HeaderBytes THEN NullLoad
        ELSE IF n < w_off THEN NullLoad
        ELSE IF weight_count >= HugeSize THEN NullLoad
        ELSE IF weight_count = 0 /\ calloc0_null THEN NullLoad
        ELSE IF n < w_off + weight_count * FloatBytes THEN NullLoad
        ELSE [ok |-> TRUE,
              m  |-> [name           |-> SubSeq(b, o_name + 1, o_len),
                      version        |-> 0,
                      input_size     |-> DecLE(in_bytes),
                      output_size    |-> DecLE(out_bytes),
                      internal_state |-> DecFloats(SubSeq(b, w_off + 1, n), weight_count),
                      memory         |-> [i \in 0..(MaxMemory - 1) |->
                                            IF i < mem_len
                                            THEN DecMemory(SubSeq(b, HeaderBytes + i * RecBytes + 1,
                                                                  HeaderBytes + (i + 1) * RecBytes))
                                            ELSE ZeroMemory],
                      memory_len     |-> mem_len]]

\* bool fossil_ai_jellyfish_save_model(model, filepath)
fossil_ai_jellyfish_save_model(null, fopen_ok) ==
    /\ IF null \in {"model", "filepath"} \/ ~fopen_ok
       THEN /\ ret' = Ret("save_model", "false", <<>>, null)
            /\ UNCHANGED <<disk, saved, corrupt>>
       ELSE /\ disk' = [exists |-> TRUE, bytes |-> SaveBytes(model)]
            /\ saved' = [ok |-> TRUE, m |-> model]
            /\ corrupt' = [kind |-> "none", pos |-> 0]
            /\ ret' = Ret("save_model", "true", <<>>, null)
    /\ UNCHANGED <<memVars, loaded, ledgerVars, hashVars, sysVars>>

\* fossil_ai_jellyfish_model_t *fossil_ai_jellyfish_load_model(filepath)
fossil_ai_jellyfish_load_model(null, calloc0_null) ==
    /\ loaded' = IF null = "filepath" \/ ~disk.exists THEN NullLoad
                 ELSE LoadBytes(disk.bytes, calloc0_null)
    /\ ret' = Ret("load_model", IF loaded'.ok THEN "ptr" ELSE "NULL", <<>>, null)
    /\ UNCHANGED <<memVars, disk, saved, corrupt, ledgerVars, hashVars, sysVars>>

-----------------------------------------------------------------------------
(* Initial values of the parts a specification leaves alone.               *)

MemIdle ==
    /\ model = NoModel
    /\ ctx = [session_id |-> <<>>, history_len |-> 0, timestamp |-> 0]
    /\ clock = 0
    /\ nins = 0
    /\ slot_ins = [i \in 0..(MaxMemory - 1) |-> -1]
    /\ last_idx = -1

DiskIdle ==
    /\ disk = [exists |-> FALSE, bytes |-> <<>>]
    /\ loaded = [ok |-> FALSE, m |-> NoModel]
    /\ saved = [ok |-> FALSE, m |-> NoModel]
    /\ corrupt = [kind |-> "none", pos |-> 0]

LedgerIdle ==
    /\ logs = <<>>
    /\ prev_logs = <<>>
    /\ writers = <<>>

HashIdle ==
    /\ hash_static = <<>>
    /\ audits = <<>>
    /\ held = <<>>
    /\ blobs = <<>>

RetIdle == ret = Ret("none", "none", <<>>, "none")

SysIdle ==
    /\ rng = 0
    /\ kernel = <<>>
    /\ threads = <<>>
    /\ session = <<>>
    /\ detector = <<>>

-----------------------------------------------------------------------------
(* SpecMemory: one model created by create_model, then add_memory and      *)
(* infer calls on it.                                                      *)

\* "m"
ModelName == <<109>>

\* The (input_size, output_size) of the models created.
ModelShapes == {<<EmbedSize, EmbedSize>>, <<EmbedSize, 1>>}

\* The arguments a caller may pass as NULL.
NullArgs == {"none", "model", "input", "output"}

InitMemory ==
    /\ \E shape \in ModelShapes :
          model = fossil_ai_jellyfish_create_model(ModelName, shape[1], shape[2])
    /\ clock \in 0..MaxTime
    /\ ctx = [session_id |-> <<115>>, history_len |-> 0, timestamp |-> clock]
    /\ nins = 0
    /\ slot_ins = [i \in 0..(MaxMemory - 1) |-> -1]
    /\ last_idx = -1
    /\ RetIdle /\ DiskIdle /\ LedgerIdle /\ HashIdle /\ SysIdle

NextMemory ==
    \/ \E null \in NullArgs :
       \E call \in {<<UnitVec(1), UnitVec(2), 1>>, <<UnitVec(2), UnitVec(1), EmbedSize + 1>>} :
          fossil_ai_jellyfish_add_memory(null, call[1], call[2], call[3])
    \/ \E null \in NullArgs \cup {"ctx"} :
          fossil_ai_jellyfish_infer(null, UnitVec(EmbedSize))

SpecMemory == InitMemory /\ [][NextMemory]_vars

\* C7: the number of stored records is min(inserts so far, capacity), so it
\* never exceeds the capacity.
C7_LenIsMinInsertsCapacity ==
    /\ model.memory_len = Min(nins, MaxMemory)
    /\ model.memory_len <= MaxMemory

\* C7 witness: more records were inserted than fit, the last one by infer.
C7_Witness ==
    /\ nins > MaxMemory
    /\ model.memory_len = MaxMemory
    /\ ret.fn = "infer" /\ ret.rc = "true"

\* The inserts a ring of this capacity holds after nins inserts: the newest
\* min(nins, capacity) of them.
NewestInserts == {t \in 0..(nins - 1) : t >= nins - MaxMemory}

\* C8: insert number t (from 0) is written at index t mod capacity, so the
\* store always holds the newest min(inserts, capacity) records: after
\* capacity+k inserts exactly the k oldest are gone.
C8_RingOverwritesOldest ==
    /\ last_idx # -1 => last_idx = (nins - 1) % MaxMemory
    /\ {slot_ins[i] : i \in 0..(MaxMemory - 1)} \ {-1} = NewestInserts

\* C14: every successful infer call inserts exactly one new record, the query
\* input paired with the returned output: one slot now holds that pair, every
\* other slot is as before, and the record count has grown by one unless the
\* store was full.
C14_InferInsertsOne ==
    [][(ret'.fn = "infer" /\ ret'.rc = "true") =>
         /\ model'.memory_len = Min(model.memory_len + 1, MaxMemory)
         /\ \E idx \in 0..(MaxMemory - 1) :
               /\ SubSeq(model'.memory[idx].embedding, 1, model.input_size) = ret'.out[1]
               /\ SubSeq(model'.memory[idx].output, 1, model.output_size) = ret'.out[2]
               /\ \A o \in 0..(MaxMemory - 1) \ {idx} : model'.memory[o] = model.memory[o]]_vars

\* The similarity score infer gives record r of model m for the query.
InferScore(m, input, r) ==
    0 - fossil_ai_jellyfish_l2_distance(input, m.memory[r].embedding,
                                        Min(m.output_size, EmbedSize))

\* The stored records that at least TopK others beat outright: none of them
\* is among the min(TopK, len) best, however ties are broken.
Unselected(m, input) ==
    {r \in 0..(m.memory_len - 1) :
        Cardinality({o \in 0..(m.memory_len - 1) :
                        InferScore(m, input, o) > InferScore(m, input, r)}) >= TopK}

\* C15: only the min(3, len) records with the highest similarity scores
\* contribute to the blended output of infer: whatever output an unselected
\* record holds, the result is the same.
C15_OnlyTopKContribute ==
    [][(ret'.fn = "infer" /\ ret'.rc = "true") =>
         \A r \in Unselected(model, ret'.out[1]) :
            \A o \in {Zeros(EmbedSize), [i \in 1..EmbedSize |-> FScale]} :
               InferOut([model EXCEPT !.memory[r].output = o], ret'.out[1]) = ret'.out[2]]_vars

\* C19: for a store of capacity N, the insert that makes N+1 leaves the
\* record count at N, puts the newest record at index 0 and leaves the record
\* at index 1 as it was.
C19_WrapReplacesIndexZero ==
    [][(nins = MaxMemory /\ nins' = MaxMemory + 1) =>
         LET embed_len == IF ret'.fn = "infer" THEN model.output_size ELSE ret'.out[3]
             n         == Min(Min(embed_len, EmbedSize), model.output_size)
         IN  /\ model'.memory_len = MaxMemory
             /\ SubSeq(model'.memory[0].embedding, 1, n) = SubSeq(ret'.out[1], 1, n)
             /\ SubSeq(model'.memory[0].output, 1, n) = SubSeq(ret'.out[2], 1, n)
             /\ model'.memory[1] = model.memory[1]]_vars

\* N+1 records have been inserted, the last one went to index 0, and it
\* differs from the record at index 1, which is still the second insert.
C19_Witness ==
    /\ nins = MaxMemory + 1
    /\ model.memory_len = MaxMemory
    /\ last_idx = 0
    /\ slot_ins[0] = MaxMemory
    /\ slot_ins[1] = 1
    /\ model.memory[0] # model.memory[1]

-----------------------------------------------------------------------------
(* Chat: fossil_ai_chat_respond answers a message with a canned refusal or *)
(* runs the message through infer and acknowledges it.                     *)

\* "Request acknowledged."
Acknowledged == <<82, 101, 113, 117, 101, 115, 116, 32, 97, 99, 107, 110, 111, 119,
                  108, 101, 100, 103, 101, 100, 46>>

\* The caller's response buffer sizes.
OutLens == {0, 8}

(* Risk detection of the chat gate.  detect_risk tokenizes the message,    *)
(* skips the tokens that are not within edit distance 1 of a vocabulary    *)
(* word, and looks the others up in one hash table per risk class.         *)

\* FOSSIL_AI_CHAT_MAX_TOKENS and FOSSIL_AI_CHAT_MAX_TOKEN_LEN
FOSSIL_AI_CHAT_MAX_TOKENS == 128
FOSSIL_AI_CHAT_MAX_TOKEN_LEN == 32

IsAlpha(c) == c \in 65..90 \/ c \in 97..122
IsSpace(c) == c = 32 \/ c \in 9..13
ToLower(c) == IF c \in 65..90 THEN c + 32 ELSE c

\* The first pass of normalize_and_tokenize: letters and white space in
\* lower case, every other character a blank.
NormalizeText(input) ==
    [k \in 1..Len(input) |->
        IF IsAlpha(input[k]) \/ IsSpace(input[k]) THEN ToLower(input[k]) ELSE 32]

\* The second pass: the runs of non-blank characters, each cut at
\* MAX_TOKEN_LEN - 1 characters, at most MAX_TOKENS of them.
RECURSIVE TokensFrom(_, _, _, _)
TokensFrom(buf, p, cur, toks) ==
    IF Len(toks) >= FOSSIL_AI_CHAT_MAX_TOKENS THEN toks
    ELSE IF p > Len(buf)
    THEN IF cur = <<>> THEN toks ELSE Append(toks, cur)
    ELSE IF buf[p] = 32
    THEN TokensFrom(buf, p + 1, <<>>, IF cur = <<>> THEN toks ELSE Append(toks, cur))
    ELSE IF Len(cur) >= FOSSIL_AI_CHAT_MAX_TOKEN_LEN - 1
    THEN TokensFrom(buf, p, <<>>, Append(toks, cur))
    ELSE TokensFrom(buf, p + 1, Append(cur, buf[p]), toks)

normalize_and_tokenize(input) == TokensFrom(NormalizeText(input), 1, <<>>, <<>>)

\* One row of the edit-distance table: row i from row i-1, for the character
\* ch of a against b.
RECURSIVE LevRow(_, _, _, _)
LevRow(prev, ch, b, row) ==
    IF Len(row) > Len(b) THEN row
    ELSE LET j    == Len(row)
             cost == IF ch = b[j] THEN 0 ELSE 1
             m1   == prev[j + 1] + 1
             m2   == IF row[j] + 1 < m1 THEN row[j] + 1 ELSE m1
             m3   == IF prev[j] + cost < m2 THEN prev[j] + cost ELSE m2
         IN  LevRow(prev, ch, b, Append(row, m3))

RECURSIVE LevFrom(_, _, _, _)
LevFrom(a, b, i, prev) ==
    IF i > Len(a) THEN prev[Len(b) + 1]
    ELSE LevFrom(a, b, i + 1, LevRow(prev, a[i], b, <<i>>))

levenshtein(a, b) == LevFrom(a, b, 1, [j \in 1..(Len(b) + 1) |-> j - 1])

\* Words of VOCAB (the source has some 300): "i", "me", "is", "what", "then", "now", "status", "override", "you", "must"
VOCAB == {<<105>>,
          <<109, 101>>,
          <<105, 115>>,
          <<119, 104, 97, 116>>,
          <<116, 104, 101, 110>>,
          <<110, 111, 119>>,
          <<115, 116, 97, 116, 117, 115>>,
          <<111, 118, 101, 114, 114, 105, 100, 101>>,
          <<121, 111, 117>>,
          <<109, 117, 115, 116>>}

vocab_ok(w) == \E v \in VOCAB : w = v \/ levenshtein(w, v) <= 1

\* One of the COERCIVE_<<121, 111, 117, 32, 109, 117, 115, 116>>S: "you must"
Patterns == {<<121, 111, 117, 32, 109, 117, 115, 116>>}

\* strstr(text, phrase) != NULL
phrase_match(text, phrase) ==
    \E k \in 1..(Len(text) - Len(phrase) + 1) :
        SubSeq(text, k, k + Len(phrase) - 1) = phrase

detect_gaslighting_or_misinfo(text) == \E ph \in Patterns : phrase_match(text, ph)

\* hash_string on the tokens of the messages below: FNV-1a, the final
\* avalanche, modulo FOSSIL_AI_CHAT_HASH_SIZE = 1024.
hash_string(w) ==
    CASE w = <<109, 121>> -> 229  \* "my"
      [] w = <<105, 115>> -> 646  \* "is"
      [] w = <<119, 104, 97, 116>> -> 145  \* "what"
      [] w = <<116, 104, 101>> -> 584  \* "the"
      [] w = <<104, 105>> -> 741  \* "hi"
      [] w = <<111, 118, 101, 114, 114, 105, 100, 101>> -> 215  \* "override"
      [] w = <<115, 116, 97, 116, 117, 115>> -> 879  \* "status"
      [] w = <<110, 111, 119>> -> 414  \* "now"
      [] w = <<121, 111, 117>> -> 405  \* "you"
      [] w = <<109, 117, 115, 116>> -> 122  \* "must"
      [] w = <<109, 101>> -> 826  \* "me"
      [] w = <<116, 104, 101, 110>> -> 638  \* "then"
      [] w = <<105>> -> 320  \* "i"
      [] w = <<109, 105, 110, 101>> -> 999  \* "mine"
      [] OTHER -> 0

\* The buckets init_hash sets to 1 for each term list.
H_EMO == {39, 56, 57, 156, 176, 231, 252, 259, 271, 289, 320, 352, 357, 383,
           402, 407, 418, 421, 424, 451, 458, 561, 564, 577, 604, 614, 621, 623,
           683, 698, 708, 710, 734, 745, 760, 780, 784, 801, 865, 900, 922, 947,
           987, 1012}
H_DEP == {48, 65, 82, 96, 182, 191, 209, 233, 320, 347, 361, 390, 398, 400,
           485, 537, 557, 623, 627, 722, 816, 840, 956, 966, 968, 976, 977,
           1020}
H_REL == {52, 79, 115, 135, 228, 266, 276, 295, 320, 372, 381, 431, 492, 550,
           559, 564, 577, 619, 721, 735, 746, 814, 836, 854, 859, 880, 889, 961,
           976, 1007, 1010, 1022}
H_SEC == {6, 29, 72, 98, 157, 193, 203, 215, 229, 281, 295, 305, 347, 423, 433,
           435, 453, 495, 518, 524, 538, 539, 591, 644, 656, 676, 681, 713, 718,
           729, 731, 781, 803, 823, 833, 839, 841, 874, 896, 931, 990, 1018}
H_RELIG == {39, 67, 191, 208, 226, 244, 300, 362, 388, 400, 425, 427, 476, 495,
           540, 547, 564, 573, 590, 611, 637, 654, 658, 687, 697, 704, 730, 769,
           773, 791, 815, 832, 860, 867, 907, 945, 974, 981, 995, 1014}

hash_lookup(word, table) == hash_string(word) \in table

\* "i", "me", "my", "mine"
is_first_person(w) == w \in {<<105>>, <<109, 101>>, <<109, 121>>, <<109, 105, 110, 101>>}

\* The words of SECURITY used in the messages: "password", "override"
SecurityTerms == {<<112, 97, 115, 115, 119, 111, 114, 100>>, <<111, 118, 101, 114, 114, 105, 100, 101>>}

\* detect_risk(text): the risk class of a message.
detect_risk(text) ==
    IF detect_gaslighting_or_misinfo(text) THEN "SECURITY"
    ELSE LET tok     == normalize_and_tokenize(text)
             n       == Len(tok)
             valid   == {i \in 1..n : vocab_ok(tok[i])}
             invalid_vocab == n - Cardinality(valid)
             hit(t)  == \E i \in valid : hash_lookup(tok[i], t)
             first   == \E i \in valid : is_first_person(tok[i])
         IN  IF invalid_vocab > 0 /\ invalid_vocab * 2 >= n THEN "UNSUPPORTED_LANGUAGE"
             ELSE IF hit(H_SEC) THEN "SECURITY"
             ELSE IF hit(H_RELIG) THEN "RELIGION"
             ELSE IF hit(H_REL) THEN "RELATIONSHIP"
             ELSE IF hit(H_EMO) /\ (hit(H_DEP) \/ first) THEN "DEPENDENCY"
             ELSE IF hit(H_EMO) THEN "EMOTIONAL_SUPPORT"
             ELSE "NONE"

\* The texts sent to the chat gate:
\*   "pw"
\*   "what is the password"
\*   "password"
\*   "override status now"
\*   "My password is 1234"
\*   "you must hi"
ChatTexts == {<<112, 119>>,
              <<119, 104, 97, 116, 32, 105, 115, 32, 116, 104, 101, 32, 112, 97, 115, 115, 119, 111, 114, 100>>,
              <<112, 97, 115, 115, 119, 111, 114, 100>>,
              <<111, 118, 101, 114, 114, 105, 100, 101, 32, 115, 116, 97, 116, 117, 115, 32, 110, 111, 119>>,
              <<77, 121, 32, 112, 97, 115, 115, 119, 111, 114, 100, 32, 105, 115, 32, 49, 50, 51, 52>>,
              <<121, 111, 117, 32, 109, 117, 115, 116, 32, 104, 105>>}

\* The messages sent: the text, its risk class, and whether that class is one
\* of the refused kinds.
Messages == {[text |-> t, risk |-> detect_risk(t), risky |-> detect_risk(t) # "NONE"] :
                t \in ChatTexts}

\* The response set the switch of fossil_ai_chat_respond picks for a risk.
ResponseSet(risk) ==
    CASE risk = "SECURITY" -> "RESP_SECURITY"
      [] risk = "RELATIONSHIP" -> "RESP_RELATIONSHIP"
      [] risk \in {"EMOTIONAL_SUPPORT", "DEPENDENCY"} -> "RESP_EMOTIONAL"
      [] risk = "RELIGION" -> "RESP_RELIGION"
      [] risk = "UNSUPPORTED_LANGUAGE" -> "unsupported vocabulary"
      [] OTHER -> "none"

\* embed(t, o): o zeroed, then o[i] = (c - 'a') / 26 for the first EMBED_SIZE
\* characters of t.
embed(t) ==
    [i \in 1..EmbedSize |-> IF i <= Len(t) THEN ((t[i] - 97) * FScale) \div 26 ELSE 0]

\* strncpy(out, resp, out_len - 1); out[out_len - 1] = '\0'
CopyResponse(resp, out_len) == SubSeq(resp, 1, Min(Len(resp), out_len - 1))

\* bool fossil_ai_chat_respond(model, ctx, msg, out, out_len).  The only check
\* of the arguments is an assert.  ndebug says whether the build compiles
\* asserts out; then a null ctx, msg or out, or out_len = 0, is dereferenced
\* or overrun (crash is one outcome of that undefined behaviour, returning
\* normally the other), and a null model reaches infer, whose false the
\* function does not look at.
fossil_ai_chat_respond(null, msg, out_len, ndebug, crash) ==
    /\ Alive
    /\ nins < MaxInserts
    /\ (null = "out_len") <=> (out_len = 0)
    /\ IF null # "none" /\ ~ndebug
       THEN /\ ret' = Ret("chat_respond", "SIGABRT", <<>>, null)
            /\ UNCHANGED memVars
       ELSE IF null \in {"ctx", "msg", "out", "out_len"}
       THEN /\ ret' = Ret("chat_respond", IF crash THEN "SIGSEGV" ELSE "true", <<>>, null)
            /\ UNCHANGED memVars
       ELSE IF msg.risky
       THEN /\ ret' = Ret("chat_respond", "true",
                       <<"refusal", ResponseSet(msg.risk), msg.text>>, null)
            /\ UNCHANGED memVars
       ELSE /\ ret' = Ret("chat_respond", "true",
                       <<"inference", CopyResponse(Acknowledged, out_len), msg.text>>, null)
            /\ IF null = "model"
               THEN UNCHANGED memVars
               ELSE /\ model' = AddMemoryStore(model, embed(msg.text),
                                               InferOut(model, embed(msg.text)) \o <<>>,
                                               model.output_size, clock)
                    /\ GhostInsert(model)
                    /\ ctx' = [ctx EXCEPT !.timestamp = clock]
                    /\ UNCHANGED clock
    /\ UNCHANGED <<diskVars, ledgerVars, hashVars, sysVars>>

NextChat ==
    \/ \E null \in NullArgs \cup {"ctx"} : fossil_ai_jellyfish_infer(null, UnitVec(1))
    \/ \E null \in {"none", "model", "ctx", "msg", "out", "out_len"}, msg \in Messages,
          out_len \in OutLens, ndebug \in BOOLEAN, crash \in BOOLEAN :
          fossil_ai_chat_respond(null, msg, out_len, ndebug, crash)

SpecChat == InitMemory /\ [][NextChat]_vars

\* C18: infer with a null model or a null context, and chat_respond with a
\* null model, context, message or response buffer or a zero buffer length,
\* return false to the caller.
C18_NullArgsReturnFalse ==
    /\ (ret.fn = "infer" /\ ret.null \in {"model", "ctx"}) => ret.rc = "false"
    /\ (ret.fn = "chat_respond" /\ ret.null # "none") => ret.rc = "false"

\* The message contains a word of SECURITY as one of its tokens.
ContainsSecurityTerm(text) ==
    \E i \in 1..Len(normalize_and_tokenize(text)) :
        normalize_and_tokenize(text)[i] \in SecurityTerms

\* C22: a message that contains a security-sensitive term such as "password"
\* is answered from the security refusals and never passed to inference,
\* whatever other words it contains.
C22_SecurityTermRefused ==
    (/\ ret.fn = "chat_respond" /\ ret.rc = "true" /\ ret.null = "none"
     /\ ContainsSecurityTerm(ret.out[3]))
        => (ret.out[1] = "refusal" /\ ret.out[2] = "RESP_SECURITY")

-----------------------------------------------------------------------------
(* SpecPersist: a model with trained weights, add_memory, save_model and   *)
(* load_model of the file as written.                                      *)

\* "model": longer than the name field holds.
LongName == <<109, 111, 100, 101, 108>>

\* Weights as training may leave them: negative, zero and positive values.
Ramp(n) == [i \in 1..n |-> i - 2]

InitPersist ==
    /\ \E shape \in ModelShapes, name \in {ModelName, LongName}, trained \in BOOLEAN :
          model = [fossil_ai_jellyfish_create_model(name, shape[1], shape[2])
                      EXCEPT !.internal_state = IF trained THEN Ramp(shape[1] * shape[2])
                                                ELSE @]
    /\ clock \in 0..MaxTime
    /\ ctx = [session_id |-> <<115>>, history_len |-> 0, timestamp |-> clock]
    /\ nins = 0
    /\ slot_ins = [i \in 0..(MaxMemory - 1) |-> -1]
    /\ last_idx = -1
    /\ RetIdle /\ DiskIdle /\ LedgerIdle /\ HashIdle /\ SysIdle

NextPersist ==
    \/ fossil_ai_jellyfish_add_memory("none", UnitVec(1), UnitVec(2), EmbedSize)
    \/ \E null \in {"none", "model", "filepath"}, fopen_ok \in BOOLEAN :
          fossil_ai_jellyfish_save_model(null, fopen_ok)
    \/ \E null \in {"none", "filepath"}, calloc0_null \in BOOLEAN :
          fossil_ai_jellyfish_load_model(null, calloc0_null)

SpecPersist == InitPersist /\ [][NextPersist]_vars

\* The last call loaded the file that save_model wrote, unaltered.
LoadedSavedFile ==
    /\ ret.fn = "load_model"
    /\ ret.null = "none"
    /\ saved.ok
    /\ corrupt.kind = "none"
    /\ disk.exists

\* C6: save_model then load_model of the saved file gives a model with the same
\* name, input_size, output_size, memory record count and contents, and weights.
C6_SaveLoadRoundTrip ==
    LoadedSavedFile =>
        /\ loaded.ok
        /\ loaded.m.name = saved.m.name
        /\ loaded.m.input_size = saved.m.input_size
        /\ loaded.m.output_size = saved.m.output_size
        /\ loaded.m.memory_len = saved.m.memory_len
        /\ \A i \in 0..(saved.m.memory_len - 1) : loaded.m.memory[i] = saved.m.memory[i]
        /\ loaded.m.internal_state = saved.m.internal_state

\* C6 witness: a file saved from a model with a full memory and trained weights
\* was loaded back.
C6_Witness ==
    /\ LoadedSavedFile
    /\ loaded.ok
    /\ saved.m.memory_len = MaxMemory
    /\ \E i \in 1..Len(saved.m.internal_state) : saved.m.internal_state[i] < 0

-----------------------------------------------------------------------------
(* SpecCorrupt: as SpecPersist, and the saved file is altered on disk       *)
(* (one byte changed, or the file cut short) before it is loaded.          *)

\* One byte of the file gets another value.
FlipByte(pos, delta) ==
    /\ disk.exists
    /\ corrupt.kind = "none"
    /\ pos \in 1..Len(disk.bytes)
    /\ disk' = [disk EXCEPT !.bytes[pos] = (@ + delta) % 256]
    /\ corrupt' = [kind |-> "flip", pos |-> pos]
    /\ ret' = Ret("corrupt", "none", <<>>, "none")
    /\ UNCHANGED <<memVars, loaded, saved, ledgerVars, hashVars, sysVars>>

\* The file is cut to its first n bytes.
Truncate(n) ==
    /\ disk.exists
    /\ corrupt.kind = "none"
    /\ n \in 0..(Len(disk.bytes) - 1)
    /\ disk' = [disk EXCEPT !.bytes = SubSeq(@, 1, n)]
    /\ corrupt' = [kind |-> "cut", pos |-> n]
    /\ ret' = Ret("corrupt", "none", <<>>, "none")
    /\ UNCHANGED <<memVars, loaded, saved, ledgerVars, hashVars, sysVars>>

\* The longest file save_model writes.
MaxFileBytes == HeaderBytes + MaxMemory * RecBytes + EmbedSize * EmbedSize * FloatBytes

\* Records are added, then the model is saved once.
NextCorrupt ==
    \/ ~disk.exists /\ fossil_ai_jellyfish_add_memory("none", UnitVec(1), UnitVec(2), EmbedSize)
    \/ ~disk.exists /\ fossil_ai_jellyfish_save_model("none", TRUE)
    \/ \E pos \in 1..MaxFileBytes, delta \in {1, 128} : FlipByte(pos, delta)
    \/ \E n \in 0..MaxFileBytes : Truncate(n)
    \/ \E calloc0_null \in BOOLEAN : fossil_ai_jellyfish_load_model("none", calloc0_null)

SpecCorrupt == InitPersist /\ [][NextCorrupt]_vars

\* Offset of the first weight byte in the file saved from model m.
WeightOffset(m) == HeaderBytes + m.memory_len * RecBytes

\* C1: after any single byte of the weight section of a saved file is changed,
\* load_model returns no model.
C1_WeightTamperRejected ==
    (/\ ret.fn = "load_model"
     /\ saved.ok
     /\ corrupt.kind = "flip"
     /\ corrupt.pos > WeightOffset(saved.m)) => ~loaded.ok

\* The header fields of file bytes b, as declared.
DeclaredLen(b) == DecLE(SubSeq(b, HeaderBytes - SizeBytes + 1, HeaderBytes))
DeclaredIn(b)  == DecLE(SubSeq(b, 2 * U32Bytes + 1, 2 * U32Bytes + SizeBytes))
DeclaredOut(b) == DecLE(SubSeq(b, 2 * U32Bytes + SizeBytes + 1, 2 * U32Bytes + 2 * SizeBytes))

\* The file ends before the memory records and weights its header declares.
EndsBeforeDeclared(b) ==
    \/ Len(b) < HeaderBytes
    \/ DeclaredLen(b) > Len(b)
    \/ DeclaredIn(b) > Len(b) /\ DeclaredOut(b) > 0
    \/ DeclaredOut(b) > Len(b) /\ DeclaredIn(b) > 0
    \/ /\ DeclaredIn(b) <= Len(b)
       /\ DeclaredOut(b) <= Len(b)
       /\ Len(b) < HeaderBytes + DeclaredLen(b) * RecBytes
                   + DeclaredIn(b) * DeclaredOut(b) * FloatBytes

BadMagicOrVersion(b) ==
    \/ Len(b) < 2 * U32Bytes
    \/ SubSeq(b, 1, U32Bytes) # EncLE(FOSSIL_AI_JELLYFISH_MAGIC, U32Bytes)
    \/ SubSeq(b, U32Bytes + 1, 2 * U32Bytes) # EncLE(FOSSIL_AI_JELLYFISH_VERSION, U32Bytes)

\* C10: load_model returns no model when the magic number or version is wrong,
\* or when the file ends before all declared memory records and weights.
C10_LoadFailsClosed ==
    (/\ ret.fn = "load_model"
     /\ disk.exists
     /\ BadMagicOrVersion(disk.bytes) \/ EndsBeforeDeclared(disk.bytes)) => ~loaded.ok

-----------------------------------------------------------------------------
(* The training log.  Each model has the file "<core id>_<model id>_        *)
(* training.log"; train, retrain and untrain append one record to it.      *)
(* A file is a sequence of cells: the byte b is the cell <<b>>.  SHA-256 is *)
(* kept symbolic and collision-free: byte i of the digest of the cells P   *)
(* is the cell <<-i, P>>.                                                  *)

\* unsigned char hash[32]
DigestLen == 32

Cells(bytes) == [i \in 1..Len(bytes) |-> <<bytes[i]>>]

SHA256(P) == [i \in 1..DigestLen |-> <<-i, P>>]

\* The model ids of the one core, and the dataset ids used.
ModelIds == {"m1", "m2"}
DatasetIds == {<<97>>, <<97, 98>>}
MaxRecords == 2

NoFile == [exists |-> FALSE, bytes |-> <<>>]

\* fopen(path, "wb") in place of "ab": the file is truncated first.
AppendBytes_truncating(file, rec) == [exists |-> TRUE, bytes |-> rec]

\* fopen(path, "ab"), the fwrite calls, fclose.
AppendBytes(file, rec) == [exists |-> TRUE, bytes |-> file.bytes \o rec]

\* The record train, retrain and untrain write: op_type, ds_len, dataset_id
\* and the digest of dataset_id.
LogRecord(op_type, dataset_id) ==
    Cells(<<op_type>>)
    \o Cells(EncLE(Len(dataset_id), U32Bytes))
    \o Cells(dataset_id)
    \o SHA256(Cells(dataset_id))

\* The records of a log file, read as they were written.
RECURSIVE ParseLog(_)
ParseLog(b) ==
    IF Len(b) < 1 + U32Bytes THEN <<>>
    ELSE LET ds_len == DecLE([i \in 1..U32Bytes |-> b[1 + i][1]])
             end    == 1 + U32Bytes + ds_len + DigestLen
         IN  IF Len(b) < end THEN <<>>
             ELSE <<[op_type    |-> b[1][1],
                     dataset_id |-> SubSeq(b, 1 + U32Bytes + 1, 1 + U32Bytes + ds_len),
                     entry_hash |-> SubSeq(b, 1 + U32Bytes + ds_len + 1, end)]>>
                  \o ParseLog(SubSeq(b, end + 1, Len(b)))

TotalRecords == SumSeq([k \in 1..2 |->
                   Len(ParseLog(logs[IF k = 1 THEN "m1" ELSE "m2"].bytes))])

\* The body shared by train, retrain and untrain.
LogOp(fn, op_type, null, model_id, dataset_id, fopen_ok) ==
    /\ prev_logs' = logs
    /\ IF null \in {"core", "model", "dataset_id"} \/ ~fopen_ok
       THEN /\ ret' = Ret(fn, "-1", <<model_id, dataset_id>>, null)
            /\ UNCHANGED logs
       ELSE /\ logs' = [logs EXCEPT ![model_id] = AppendBytes(@, LogRecord(op_type, dataset_id))]
            /\ ret' = Ret(fn, "0", <<model_id, dataset_id>>, null)
    /\ UNCHANGED <<writers, memVars, diskVars, hashVars, sysVars>>

fossil_ai_jellyfish_train(null, model_id, dataset_id, fopen_ok) ==
    LogOp("train", 1, null, model_id, dataset_id, fopen_ok)

fossil_ai_jellyfish_retrain(null, model_id, dataset_id, fopen_ok) ==
    LogOp("retrain", 2, null, model_id, dataset_id, fopen_ok)

fossil_ai_jellyfish_untrain(null, model_id, dataset_id, fopen_ok) ==
    LogOp("untrain", 3, null, model_id, dataset_id, fopen_ok)

\* int fossil_ai_jellyfish_erase(core, dataset_id): the body is a TODO.
fossil_ai_jellyfish_erase(null, dataset_id) ==
    /\ prev_logs' = logs
    /\ ret' = Ret("erase", IF null \in {"core", "dataset_id"} THEN "-1" ELSE "0",
                  <<"", dataset_id>>, null)
    /\ UNCHANGED <<logs, writers, memVars, diskVars, hashVars, sysVars>>

\* int fossil_ai_jellyfish_auto_detect(core, model): the log file is opened
\* and closed again.
fossil_ai_jellyfish_auto_detect(model_id) ==
    /\ prev_logs' = logs
    /\ ret' = Ret("auto_detect", IF logs[model_id].exists THEN "0" ELSE "-1",
                  <<model_id, <<>>>>, "none")
    /\ UNCHANGED <<logs, writers, memVars, diskVars, hashVars, sysVars>>

InitLedger ==
    /\ logs = [m \in ModelIds |-> NoFile]
    /\ prev_logs = logs
    /\ writers = <<>>
    /\ MemIdle /\ DiskIdle /\ HashIdle /\ RetIdle /\ SysIdle

\* The calls tried: each null argument, and fopen failing.
LedgerFaults == {<<"none", TRUE>>, <<"none", FALSE>>, <<"core", TRUE>>,
                 <<"model", TRUE>>, <<"dataset_id", TRUE>>}

LedgerCalls(cap) ==
    \/ \E f \in LedgerFaults, m \in ModelIds, ds \in DatasetIds :
         TotalRecords < cap /\ fossil_ai_jellyfish_train(f[1], m, ds, f[2])
    \/ \E f \in LedgerFaults, m \in ModelIds, ds \in DatasetIds :
         TotalRecords < cap /\ fossil_ai_jellyfish_retrain(f[1], m, ds, f[2])
    \/ \E f \in LedgerFaults, m \in ModelIds, ds \in DatasetIds :
         TotalRecords < cap /\ fossil_ai_jellyfish_untrain(f[1], m, ds, f[2])
    \/ \E null \in {"none", "core", "dataset_id"}, ds \in DatasetIds :
         fossil_ai_jellyfish_erase(null, ds)
    \/ \E m \in ModelIds : fossil_ai_jellyfish_auto_detect(m)

NextLedger == LedgerCalls(MaxRecords)

SpecLedger == InitLedger /\ [][NextLedger]_vars

IsPrefix(a, b) == Len(a) <= Len(b) /\ SubSeq(b, 1, Len(a)) = a

\* The sentinel standing for "no previous record".
EmptyChain == Cells(Zeros(DigestLen))

\* The hash record k of a log should carry, chained to the record before it.
ChainedHash(recs, k) ==
    SHA256((IF k = 1 THEN EmptyChain ELSE recs[k - 1].entry_hash)
           \o Cells(<<recs[k].op_type>>)
           \o recs[k].dataset_id)

\* C2: every record of every training log stores
\* entry_hash = SHA256(prev_hash || op || dataset_id), with the empty-chain
\* sentinel as prev_hash of the first record.
C2_HashChain ==
    \A m \in ModelIds :
        LET recs == ParseLog(logs[m].bytes)
        IN  \A k \in 1..Len(recs) : recs[k].entry_hash = ChainedHash(recs, k)

OpCode(fn) ==
    IF fn = "train" THEN 1 ELSE IF fn = "retrain" THEN 2 ELSE IF fn = "untrain" THEN 3 ELSE 4

\* C5: a train, retrain, untrain or erase call that returned 0 has appended
\* exactly one record, with the call's op code and dataset_id, to one log and
\* has left the other logs as they were.
C5_OneRecordPerCall ==
    (ret.fn \in {"train", "retrain", "untrain", "erase"} /\ ret.rc = "0") =>
        \E m \in ModelIds :
            LET old == ParseLog(prev_logs[m].bytes)
                new == ParseLog(logs[m].bytes)
            IN  /\ Len(new) = Len(old) + 1
                /\ SubSeq(new, 1, Len(old)) = old
                /\ new[Len(new)].op_type = OpCode(ret.fn)
                /\ new[Len(new)].dataset_id = Cells(ret.out[2])
                /\ \A o \in ModelIds \ {m} : logs[o] = prev_logs[o]

-----------------------------------------------------------------------------
(* SpecLedgerTamper: the ledger calls, and a change to the dataset_id      *)
(* bytes of the first record of a log on disk.                             *)

TamperRecords == 3

\* Some record's stored hash is not the hash of the record as it stands, or
\* the log ends inside a record.
ChainBroken(b) ==
    LET recs == ParseLog(b)
    IN  \/ \E k \in 1..Len(recs) : recs[k].entry_hash # SHA256(recs[k].dataset_id)
        \/ Len(b) # SumSeq([k \in 1..Len(recs) |->
                       1 + U32Bytes + Len(recs[k].dataset_id) + DigestLen])

\* The dataset_id bytes of the first record of an intact log are changed.
TamperFirstDataset(model_id) ==
    /\ Len(ParseLog(logs[model_id].bytes)) >= 1
    /\ ~ChainBroken(logs[model_id].bytes)
    /\ prev_logs' = logs
    /\ logs' = [logs EXCEPT ![model_id].bytes[1 + U32Bytes + 1] = <<(@[1] + 1) % 256>>]
    /\ ret' = Ret("tamper", "none", <<model_id, <<>>>>, "none")
    /\ UNCHANGED <<writers, memVars, diskVars, hashVars, sysVars>>

NextLedgerTamper ==
    \/ LedgerCalls(TamperRecords)
    \/ \E m \in ModelIds : TamperFirstDataset(m)

SpecLedgerTamper == InitLedger /\ [][NextLedgerTamper]_vars

\* C3: the check of a model's log succeeds on an untouched log of three
\* records and fails once the dataset_id bytes of the first record on disk
\* have been changed.
C3_TamperDetected ==
    (ret.fn = "auto_detect" /\ Len(ParseLog(logs[ret.out[1]].bytes)) = TamperRecords) =>
        (ret.rc = "0") = ~ChainBroken(logs[ret.out[1]].bytes)

-----------------------------------------------------------------------------
(* Two processes appending to one training log.  Each train call opens the *)
(* log with fopen(path, "ab"), puts the record into the stream's buffer    *)
(* with four fwrite calls and closes the stream.  The stream hands the     *)
(* buffer to the file whenever it is full and at fclose; each such write   *)
(* lands at the end of the file as it is then.                             *)

\* The writer processes.
Writers == {1, 2}
\* The size of a stream's buffer (BUFSIZ), scaled below the size of a record.
BufSize == 16
\* The train calls the writers make in all.
MaxWriterCalls == 3
\* The log both writers append to.
WriterModel == "m1"

\* The cells the stream writes out next: a full buffer, or what is left.
WriterChunk_short(pend) == SubSeq(pend, 1, Min(BufSize, Len(pend)) - 1)

WriterChunk(pend) == SubSeq(pend, 1, Min(BufSize, Len(pend)))

\* What stays in the stream after that write.
WriterRest(pend) == SubSeq(pend, Min(BufSize, Len(pend)) + 1, Len(pend))

\* train up to its first write: the arguments are non-null, fopen succeeds
\* (creating the file), the record is in the stream.  Ghosts: the dataset ids
\* in the order the calls began, and whether a call began while another
\* writer's record was incomplete.
WriterBegin(w, dataset_id) ==
    /\ writers.pend[w] = <<>>
    /\ writers.calls < MaxWriterCalls
    /\ writers' = [writers EXCEPT
                     !.pend[w] = LogRecord(1, dataset_id),
                     !.calls   = @ + 1,
                     !.began   = Append(@, dataset_id),
                     !.overlap = @ \/ \E o \in Writers \ {w} : writers.pend[o] # <<>>]
    /\ prev_logs' = logs
    /\ logs' = [logs EXCEPT ![WriterModel].exists = TRUE]
    /\ ret' = Ret("train", "running", <<WriterModel, dataset_id>>, "none")
    /\ UNCHANGED <<memVars, diskVars, hashVars, sysVars>>

\* One write of the stream to the file; the last one is fclose, after which
\* train returns 0.  Ghost: clean counts the records completed while no call
\* had overlapped another.
WriterFlush(w) ==
    /\ writers.pend[w] # <<>>
    /\ prev_logs' = logs
    /\ logs' = [logs EXCEPT ![WriterModel] = AppendBytes(@, WriterChunk(writers.pend[w]))]
    /\ writers' = [writers EXCEPT
                     !.pend[w] = WriterRest(@),
                     !.clean   = IF WriterRest(writers.pend[w]) = <<>> /\ ~writers.overlap
                                 THEN @ + 1 ELSE @]
    /\ ret' = Ret("train", IF WriterRest(writers.pend[w]) = <<>> THEN "0" ELSE "running",
                  <<WriterModel, <<>>>>, "none")
    /\ UNCHANGED <<memVars, diskVars, hashVars, sysVars>>

InitWriters ==
    /\ logs = [m \in ModelIds |-> NoFile]
    /\ prev_logs = logs
    /\ writers = [pend |-> [w \in Writers |-> <<>>], calls |-> 0, began |-> <<>>,
                  overlap |-> FALSE, clean |-> 0]
    /\ MemIdle /\ DiskIdle /\ HashIdle /\ RetIdle /\ SysIdle

NextWriters ==
    \/ \E w \in Writers, ds \in DatasetIds : WriterBegin(w, ds)
    \/ \E w \in Writers : WriterFlush(w)

SpecWriters == InitWriters /\ [][NextWriters]_vars

\* Whether a file is a sequence of whole records, each an op_type in 1..3, a
\* length, that many dataset_id bytes and the digest of those bytes.
RECURSIVE WellFormedLog(_)
WellFormedLog(b) ==
    \/ b = <<>>
    \/ /\ Len(b) >= 1 + U32Bytes
       /\ \A i \in 1..(1 + U32Bytes) : Len(b[i]) = 1
       /\ b[1][1] \in 1..3
       /\ LET ds_len == DecLE([i \in 1..U32Bytes |-> b[1 + i][1]])
              end    == 1 + U32Bytes + ds_len + DigestLen
          IN  /\ Len(b) >= end
              /\ \A i \in (1 + U32Bytes + 1)..(1 + U32Bytes + ds_len) : Len(b[i]) = 1
              /\ SubSeq(b, 1 + U32Bytes + ds_len + 1, end)
                   = SHA256(SubSeq(b, 1 + U32Bytes + 1, 1 + U32Bytes + ds_len))
              /\ WellFormedLog(SubSeq(b, end + 1, Len(b)))

\* The records of the given dataset ids, one after the other.
RECURSIVE RecordsOf(_)
RecordsOf(ids) ==
    IF ids = <<>> THEN <<>> ELSE LogRecord(1, Head(ids)) \o RecordsOf(Tail(ids))

WritersIdle == \A w \in Writers : writers.pend[w] = <<>>

\* C20: when the appends of the two writers are serialized, every record is
\* in the file contiguously: once the calls have returned, the file is the
\* calls' records one after the other and parses as well-formed records.  (That
\* unserialized appends can leave a file that is not a sequence of well-formed
\* records is the reachable state C20_Witness.)
C20_SerializedContiguous ==
    (WritersIdle /\ ~writers.overlap) =>
        /\ logs[WriterModel].bytes = RecordsOf(writers.began)
        /\ WellFormedLog(logs[WriterModel].bytes)

\* A first record was appended alone and is contiguous; then two calls ran
\* without serialization, and after both returned the file is not a sequence
\* of well-formed records.
C20_Witness ==
    /\ WritersIdle
    /\ writers.clean >= 1
    /\ writers.overlap
    /\ ~WellFormedLog(logs[WriterModel].bytes)

-----------------------------------------------------------------------------
(* Hash values.  A fossil_ai_jellyfish_hash_t holds a pointer to its bytes; *)
(* compute_sha256 returns the address of its one static buffer.            *)

MaxAudits == 2
MaxHeld == 2
MaxBlobs == 2

TargetIds == {<<97>>, <<98>>}
BlobData == {<<1>>, <<2, 3>>}

\* The bytes a hash value points at: h.bytes is always the address of the
\* static buffer.
Deref(h) == hash_static

\* The hash_t compute_sha256 returns for data; first is a ghost: the bytes
\* h.bytes points at when the call returns.
compute_sha256(data) ==
    [algorithm |-> "sha256", bytes |-> "hash", length |-> DigestLen, first |-> SHA256(data)]

fossil_ai_jellyfish_context_add(blob) ==
    /\ Len(blobs) < MaxBlobs
    /\ blobs' = Append(blobs, blob)
    /\ ret' = Ret("context_add", "0", <<>>, "none")
    /\ UNCHANGED <<hash_static, audits, held, memVars, diskVars, ledgerVars, sysVars>>

\* The caller keeps the hash it is given.
fossil_ai_jellyfish_context_hash ==
    LET buf == Cells(Flatten(blobs))
    IN  /\ Len(held) < MaxHeld
        /\ hash_static' = SHA256(buf)
        /\ held' = Append(held, compute_sha256(buf))
        /\ ret' = Ret("context_hash", "none", <<>>, "none")
        /\ UNCHANGED <<audits, blobs, memVars, diskVars, ledgerVars, sysVars>>

fossil_ai_jellyfish_audit(target_id) ==
    /\ Len(audits) < MaxAudits
    /\ hash_static' = SHA256(Cells(target_id))
    /\ audits' = Append(audits, [target_id |-> target_id,
                                 hash      |-> compute_sha256(Cells(target_id))])
    /\ ret' = Ret("audit", "ptr", <<>>, "none")
    /\ UNCHANGED <<held, blobs, memVars, diskVars, ledgerVars, sysVars>>

\* The caller keeps the copy of audit->hash it is given; the copy counts as
\* obtained now.
fossil_ai_jellyfish_audit_hash(k) ==
    /\ k \in 1..Len(audits)
    /\ Len(held) < MaxHeld
    /\ held' = Append(held, [audits[k].hash EXCEPT !.first = Deref(audits[k].hash)])
    /\ ret' = Ret("audit_hash", "none", <<>>, "none")
    /\ UNCHANGED <<hash_static, audits, blobs, memVars, diskVars, ledgerVars, sysVars>>

fossil_ai_jellyfish_audit_destroy(k) ==
    /\ k \in 1..Len(audits)
    /\ audits' = [i \in 1..(Len(audits) - 1) |-> IF i < k THEN audits[i] ELSE audits[i + 1]]
    /\ ret' = Ret("audit_destroy", "none", <<>>, "none")
    /\ UNCHANGED <<hash_static, held, blobs, memVars, diskVars, ledgerVars, sysVars>>

\* The caller lets go of the oldest hash it holds.
DropHeld ==
    /\ held # <<>>
    /\ held' = Tail(held)
    /\ ret' = Ret("drop", "none", <<>>, "none")
    /\ UNCHANGED <<hash_static, audits, blobs, memVars, diskVars, ledgerVars, sysVars>>

InitHash ==
    /\ hash_static = Cells(Zeros(DigestLen))
    /\ audits = <<>>
    /\ held = <<>>
    /\ blobs = <<>>
    /\ MemIdle /\ DiskIdle /\ LedgerIdle /\ RetIdle /\ SysIdle

NextHash ==
    \/ \E blob \in BlobData : fossil_ai_jellyfish_context_add(blob)
    \/ fossil_ai_jellyfish_context_hash
    \/ \E target_id \in TargetIds : fossil_ai_jellyfish_audit(target_id)
    \/ \E k \in 1..MaxAudits : fossil_ai_jellyfish_audit_hash(k)
    \/ \E k \in 1..MaxAudits : fossil_ai_jellyfish_audit_destroy(k)
    \/ DropHeld

SpecHash == InitHash /\ [][NextHash]_vars

\* C9: every hash held by the caller or stored in an audit object still has
\* the 32 bytes it had when it was obtained.
C9_HashBytesStable ==
    /\ \A k \in 1..Len(audits) : Deref(audits[k].hash) = audits[k].hash.first
    /\ \A k \in 1..Len(held) : Deref(held[k]) = held[k].first

-----------------------------------------------------------------------------
(* The hashed model file of the core interface.  Here the variable model    *)
(* holds a struct fossil_ai_jellyfish_model, [id, type], and the file is a  *)
(* sequence of cells as in the training log.                               *)

\* "FJMODEL"
FJMODEL == <<70, 74, 77, 79, 68, 69, 76>>

U64Bytes == 8

CoreIds == {<<109>>, <<109, 49, 50>>}
CoreTypes == {<<116>>, <<116, 105, 110, 121>>}

fossil_ai_jellyfish_model_create(model_id, model_type) ==
    /\ model' = [id |-> model_id, type |-> model_type]
    /\ ret' = Ret("model_create", "ptr", <<>>, "none")
    /\ UNCHANGED <<ctx, clock, nins, slot_ins, last_idx, diskVars, ledgerVars, hashVars, sysVars>>

\* The bytes of file with bytes written over it from offset pos on.
WriteAt(file, pos, bytes) ==
    [i \in 1..(IF pos + Len(bytes) > Len(file) THEN pos + Len(bytes) ELSE Len(file)) |->
        IF i > pos /\ i <= pos + Len(bytes) THEN bytes[i - pos] ELSE file[i]]

\* The header and the empty data section, as the fwrite calls put them.
CoreHeader(m) ==
    Cells(FJMODEL)
    \o Cells(EncLE(1, U32Bytes))
    \o Cells(EncLE(Len(m.id), U32Bytes))
    \o Cells(EncLE(Len(m.type), U32Bytes))
    \o Cells(m.id)
    \o Cells(m.type)
    \o Cells(EncLE(0, U64Bytes))

\* The layout fossil_ai_jellyfish_load accepts: the digest of all that precedes it, at the end.
WellFormedCells(m) ==
    LET written == CoreHeader(m)
    IN  written \o SHA256(written)

\* What fossil_ai_jellyfish_save leaves in the file: after the header is
\* written the stream is moved to offset 0, ftell there gives filesize 0, the
\* digest is taken over filesize bytes and written at the current offset.
SaveCells(m) ==
    LET written  == CoreHeader(m)
        pos      == 0
        filesize == pos
        buf      == SubSeq(written, 1, filesize)
    IN  WriteAt(written, pos, SHA256(buf))

fossil_ai_jellyfish_save(null, fopen_ok) ==
    /\ IF null \in {"model", "path"} \/ ~fopen_ok
       THEN /\ ret' = Ret("save", "-1", <<>>, null)
            /\ UNCHANGED <<disk, saved>>
       ELSE /\ disk' = [exists |-> TRUE, bytes |-> SaveCells(model)]
            /\ saved' = [ok |-> TRUE, m |-> model]
            /\ ret' = Ret("save", "0", <<>>, null)
    /\ UNCHANGED <<loaded, corrupt, memVars, ledgerVars, hashVars, sysVars>>

\* A file in the layout fossil_ai_jellyfish_load reads, made by another tool.
PlaceFile(model_id, model_type) ==
    /\ disk' = [exists |-> TRUE,
                bytes  |-> WellFormedCells([id |-> model_id, type |-> model_type])]
    /\ saved' = [ok |-> FALSE, m |-> NoModel]
    /\ ret' = Ret("place", "none", <<>>, "none")
    /\ UNCHANGED <<loaded, corrupt, memVars, ledgerVars, hashVars, sysVars>>

IsPlain(cells) == \A i \in 1..Len(cells) : Len(cells[i]) = 1
PlainBytes(cells) == [i \in 1..Len(cells) |-> cells[i][1]]

\* What fossil_ai_jellyfish_load returns for a file of cells b.  No fread is
\* checked: where the file is too short the buffers keep indeterminate
\* bytes, and uninit is what comes of them.
LoadCells(b, uninit) ==
    LET n        == Len(b)
        o_ver    == Len(FJMODEL)
        o_idlen  == o_ver + U32Bytes
        o_tylen  == o_idlen + U32Bytes
        o_id     == o_tylen + U32Bytes
        lens_ok  == n >= o_id /\ IsPlain(SubSeq(b, o_ver + 1, o_id))
        id_len   == DecLE(PlainBytes(SubSeq(b, o_idlen + 1, o_tylen)))
        type_len == DecLE(PlainBytes(SubSeq(b, o_tylen + 1, o_id)))
        o_type   == o_id + id_len
        o_data   == o_type + type_len
        o_hash   == o_data + U64Bytes
    IN  IF n < Len(FJMODEL) THEN uninit
        ELSE IF SubSeq(b, 1, Len(FJMODEL)) # Cells(FJMODEL) THEN NullLoad
        ELSE IF ~lens_ok THEN uninit
        ELSE IF SubSeq(b, o_ver + 1, o_idlen) # Cells(EncLE(1, U32Bytes)) THEN NullLoad
        ELSE IF n < o_hash + DigestLen THEN uninit
        ELSE IF SubSeq(b, o_hash + 1, o_hash + DigestLen) # SHA256(SubSeq(b, 1, n - DigestLen))
             THEN NullLoad
        ELSE [ok |-> TRUE,
              m  |-> [id   |-> PlainBytes(SubSeq(b, o_id + 1, o_type)),
                      type |-> PlainBytes(SubSeq(b, o_type + 1, o_data))]]

fossil_ai_jellyfish_load(null, fopen_ok, uninit) ==
    /\ loaded' = IF null = "path" \/ ~fopen_ok \/ ~disk.exists
                 THEN NullLoad
                 ELSE LoadCells(disk.bytes, uninit)
    /\ ret' = Ret("load", IF loaded'.ok THEN "ptr" ELSE "NULL", <<>>, null)
    /\ UNCHANGED <<disk, saved, corrupt, memVars, ledgerVars, hashVars, sysVars>>

InitCoreFile ==
    /\ \E model_id \in CoreIds, model_type \in CoreTypes :
         model = [id |-> model_id, type |-> model_type]
    /\ ctx = [session_id |-> <<>>, history_len |-> 0, timestamp |-> 0]
    /\ clock = 0
    /\ nins = 0
    /\ slot_ins = [i \in 0..(MaxMemory - 1) |-> -1]
    /\ last_idx = -1
    /\ DiskIdle /\ LedgerIdle /\ HashIdle /\ RetIdle /\ SysIdle

NextCoreFile ==
    \/ \E model_id \in CoreIds, model_type \in CoreTypes :
         fossil_ai_jellyfish_model_create(model_id, model_type)
    \/ \E f \in {<<"none", TRUE>>, <<"none", FALSE>>, <<"model", TRUE>>, <<"path", TRUE>>} :
         fossil_ai_jellyfish_save(f[1], f[2])
    \/ \E model_id \in CoreIds, model_type \in CoreTypes : PlaceFile(model_id, model_type)
    \/ \E f \in {<<"none", TRUE>>, <<"none", FALSE>>, <<"path", TRUE>>} :
       \E uninit \in {NullLoad, [ok |-> TRUE, m |-> [id |-> <<>>, type |-> <<>>]]} :
         fossil_ai_jellyfish_load(f[1], f[2], uninit)

SpecCoreFile == InitCoreFile /\ [][NextCoreFile]_vars

\* C11: a file written by save is the header and content followed by the
\* SHA-256 digest of all of them, and load accepts the file as save left it.
C11_SaveAppendsDigest ==
    /\ (ret.fn = "save" /\ ret.rc = "0") =>
          disk.bytes = CoreHeader(model) \o SHA256(CoreHeader(model))
    /\ (ret.fn = "load" /\ ret.null = "none" /\ saved.ok
        /\ disk.bytes = SaveCells(saved.m)) => loaded.ok

-----------------------------------------------------------------------------
(* The id-keyed store with weighted k-nearest-neighbour prediction.  Here   *)
(* the variable model holds the struct with memory_count and trained, and  *)
(* each memory record carries an id.                                       *)

\* sizeof(mem->id) (64 in the source), scaled.
IdLen == 3

\* FLT_MAX, above every score.
FLT_MAX == 2147483647

\* strncpy(mem->id, id, sizeof(mem->id) - 1) into calloc'ed storage.
IdField(id) == [i \in 1..IdLen |-> IF i <= Len(id) /\ i <= IdLen - 1 THEN id[i] ELSE 0]

\* strncmp(a, id, IdLen) == 0 for the stored field a and the C string id.
RECURSIVE StrnEqFrom(_, _, _)
StrnEqFrom(a, id, i) ==
    IF i > IdLen THEN TRUE
    ELSE LET c == IF i <= Len(id) THEN id[i] ELSE 0
         IN  IF a[i] # c THEN FALSE
             ELSE IF c = 0 THEN TRUE
             ELSE StrnEqFrom(a, id, i + 1)
StrnEq(a, id) == StrnEqFrom(a, id, 1)

ZeroIdMemory ==
    [embedding |-> Zeros(EmbedSize), output |-> Zeros(EmbedSize), timestamp |-> 0,
     id |-> Zeros(IdLen)]

create_model_named(name) ==
    [name         |-> NameField(name),
     version      |-> 1,
     memory_count |-> 0,
     memory       |-> [i \in 0..(MaxMemory - 1) |-> ZeroIdMemory],
     trained      |-> FALSE]

\* add_memory on non-null arguments: rejected when memory_count has reached
\* MAX_MEMORY, else stored at index memory_count.
AddIdMemory(m, embedding, output, id, timestamp) ==
    IF m.memory_count >= MaxMemory
    THEN [ok |-> FALSE, m |-> m]
    ELSE [ok |-> TRUE,
          m  |-> [m EXCEPT !.memory[m.memory_count] =
                               [embedding |-> embedding, output |-> output,
                                timestamp |-> timestamp,
                                id |-> fossil_ai_jellyfish_copy(@.id, IdField(id), IdLen - 1)],
                           !.memory_count = @ + 1]]

fossil_ai_jellyfish_add_memory_id(null, embedding, output, id, timestamp) ==
    /\ IF null \in {"model", "embedding", "output", "id"}
       THEN /\ ret' = Ret("add_memory", "false", <<>>, null)
            /\ UNCHANGED model
       ELSE LET r == AddIdMemory(model, embedding, output, id, timestamp)
            IN  /\ model' = r.m
                /\ ret' = Ret("add_memory", IF r.ok THEN "true" ELSE "false", <<>>, null)
    /\ nins' = IF ret'.rc = "true" THEN nins + 1 ELSE nins
    /\ UNCHANGED <<ctx, clock, slot_ins, last_idx, diskVars, ledgerVars, hashVars, sysVars>>

\* The index get_memory returns a pointer to: the first match of the scan
\* from index 0, or -1 for NULL.
GetMemoryIndex(m, id) ==
    LET hits == {i \in 0..(m.memory_count - 1) : StrnEq(m.memory[i].id, id)}
    IN  IF hits = {} THEN -1 ELSE CHOOSE i \in hits : \A j \in hits : i <= j

fossil_ai_jellyfish_get_memory(null, id) ==
    /\ LET i == IF null \in {"model", "id"} THEN -1 ELSE GetMemoryIndex(model, id)
       IN  ret' = Ret("get_memory", IF i = -1 THEN "NULL" ELSE "ptr", <<i, id>>, null)
    /\ UNCHANGED <<memVars, diskVars, ledgerVars, hashVars, sysVars>>

\* normalize_embedding / precompute_norms: vec / sqrtf(sum of squares), left
\* alone when the magnitude is 0.
Normalize(vec) ==
    LET mag == ISqrt(SumSeq([i \in 1..Len(vec) |-> vec[i] * vec[i]]))
    IN  IF mag > 0 THEN [i \in 1..Len(vec) |-> (vec[i] * FScale) \div mag] ELSE vec

fossil_ai_jellyfish_train_model(null) ==
    /\ IF null = "model"
       THEN /\ ret' = Ret("train_model", "false", <<>>, null)
            /\ UNCHANGED model
       ELSE IF model.memory_count = 0
       THEN /\ model' = [model EXCEPT !.trained = FALSE]
            /\ ret' = Ret("train_model", "false", <<>>, null)
       ELSE /\ model' = [model EXCEPT
                           !.memory = [i \in 0..(MaxMemory - 1) |->
                                          IF i < model.memory_count
                                          THEN [model.memory[i] EXCEPT
                                                   !.embedding = Normalize(@) \o <<>>]
                                          ELSE model.memory[i]],
                           !.trained = TRUE]
            /\ ret' = Ret("train_model", "true", <<>>, null)
    /\ UNCHANGED <<ctx, clock, nins, slot_ins, last_idx, diskVars, ledgerVars, hashVars, sysVars>>

\* The cosine score of record i for the normalized query.
Dot(a, b) == SumSeq([j \in 1..EmbedSize |-> a[j] * b[j]]) \div FScale

\* One pass of the inner loop of predict: record i with score dot enters the
\* best k at the first position whose score it exceeds, the rest move down.
TopInsert(best, dot, i, k) ==
    LET T == {t \in 1..k : dot > best.scores[t]}
    IN  IF T = {} THEN best
        ELSE LET t == CHOOSE x \in T : \A y \in T : x <= y
             IN  [scores  |-> [x \in 1..TopK |->
                                 IF x < t \/ x > k THEN best.scores[x]
                                 ELSE IF x = t THEN dot ELSE best.scores[x - 1]],
                  indices |-> [x \in 1..TopK |->
                                 IF x < t \/ x > k THEN best.indices[x]
                                 ELSE IF x = t THEN i ELSE best.indices[x - 1]]]

\* The best k after records 0..n-1 have been scanned in index order.
RECURSIVE TopScan(_, _, _, _)
TopScan(m, q, n, k) ==
    IF n = 0
    THEN [scores |-> [x \in 1..TopK |-> 0 - FLT_MAX], indices |-> [x \in 1..TopK |-> 0]]
    ELSE TopInsert(TopScan(m, q, n - 1, k), Dot(q, m.memory[n - 1].embedding), n - 1, k)

\* What predict writes to output_embedding: the outputs of the best k, each
\* weighted by its score where positive, divided by the total weight where
\* that is positive.
PredictOut(m, input) ==
    LET q      == Normalize(input) \o <<>>
        k      == IF m.memory_count < TopK THEN m.memory_count ELSE TopK
        best   == TopScan(m, q, m.memory_count, k)
        weight == [t \in 1..k |-> IF best.scores[t] > 0 THEN best.scores[t] ELSE 0] \o <<>>
        total  == SumSeq(weight)
        acc    == [j \in 1..EmbedSize |->
                     SumSeq([t \in 1..k |-> m.memory[best.indices[t]].output[j] * weight[t]])]
    IN  [j \in 1..EmbedSize |-> IF total > 0 THEN acc[j] \div total ELSE acc[j] \div FScale]

fossil_ai_jellyfish_predict(null, input) ==
    /\ IF null \in {"model", "input_embedding", "output_embedding"}
          \/ ~model.trained \/ model.memory_count = 0
       THEN ret' = Ret("predict", "false", <<input, <<>>>>, null)
       ELSE ret' = Ret("predict", "true", <<input, PredictOut(model, input) \o <<>>>>, null)
    /\ UNCHANGED <<memVars, diskVars, ledgerVars, hashVars, sysVars>>

\* The add_memory calls made: two records share the id "a".
DataCalls == {<<UnitVec(1), UnitVec(1), <<97>>>>,
              <<UnitVec(2), UnitVec(2), <<97>>>>,
              <<[i \in 1..EmbedSize |-> FScale], UnitVec(2), <<98>>>>}

Queries == {UnitVec(1), UnitVec(2), Zeros(EmbedSize)}

InitData ==
    /\ model = create_model_named(ModelName)
    /\ ctx = [session_id |-> <<>>, history_len |-> 0, timestamp |-> 0]
    /\ clock = 0
    /\ nins = 0
    /\ slot_ins = [i \in 0..(MaxMemory - 1) |-> -1]
    /\ last_idx = -1
    /\ DiskIdle /\ LedgerIdle /\ HashIdle /\ RetIdle /\ SysIdle

NextData ==
    \/ \E null \in {"none", "model", "id"}, call \in DataCalls :
         fossil_ai_jellyfish_add_memory_id(null, call[1], call[2], call[3], clock)
    \/ \E null \in {"none", "model", "id"}, id \in {<<97>>, <<98>>, <<99>>} :
         fossil_ai_jellyfish_get_memory(null, id)
    \/ \E null \in {"none", "model"} : fossil_ai_jellyfish_train_model(null)
    \/ \E null \in {"none", "model", "input_embedding"}, input \in Queries :
         fossil_ai_jellyfish_predict(null, input)

SpecData == InitData /\ [][NextData]_vars

\* C12: add_memory with valid arguments succeeds at every fill level of the
\* store; a full store never makes it reject the insert.
C12_AddNeverRejects ==
    (ret.fn = "add_memory" /\ ret.null = "none") => ret.rc = "true"

\* C13: when several records share an id, the lookup by that id returns the
\* one inserted last.
C13_LastWriterWins ==
    (ret.fn = "get_memory" /\ ret.rc = "ptr") =>
        \A i \in 0..(model.memory_count - 1) :
            StrnEq(model.memory[i].id, ret.out[2]) => i <= ret.out[1]

\* The best k = min(3, memory_count) records predict selects for a query.
Selected(m, input) ==
    LET k == IF m.memory_count < TopK THEN m.memory_count ELSE TopK
    IN  [k |-> k, best |-> TopScan(m, Normalize(input) \o <<>>, m.memory_count, k)]

\* C17: when every selected record has weight max(score, 0) = 0, the result
\* is the equal-weight mean of the selected records' outputs.
C17_ZeroWeightsUniform ==
    (ret.fn = "predict" /\ ret.rc = "true") =>
        LET sel == Selected(model, ret.out[1])
        IN  (\A t \in 1..sel.k : sel.best.scores[t] <= 0) =>
               ret.out[2] = [j \in 1..EmbedSize |->
                               SumSeq([t \in 1..sel.k |->
                                         model.memory[sel.best.indices[t]].output[j]])
                                 \div sel.k]

-----------------------------------------------------------------------------
(* Nearest-record inference: infer answers with the output of the stored   *)
(* record closest to the query, then stores the query with that answer.    *)

fossil_ai_jellyfish_distance(a, b, len) ==
    ISqrt(SumSeq([i \in 1..len |-> (a[i] - b[i]) * (a[i] - b[i])]))

\* The stores of this add_memory once its guard has passed: embed_len entries
\* of input and of output go to slot memory_len % MAX.
AddNearestStore(m, input, output, embed_len, now) ==
    LET idx == m.memory_len % MaxMemory
        rec == [embedding |-> fossil_ai_jellyfish_copy(m.memory[idx].embedding, input, embed_len),
                output    |-> fossil_ai_jellyfish_copy(m.memory[idx].output, output, embed_len),
                timestamp |-> now]
    IN  [m EXCEPT !.memory[idx] = rec,
                  !.memory_len = IF m.memory_len < MaxMemory THEN m.memory_len + 1
                                 ELSE m.memory_len]

\* bool fossil_ai_jellyfish_add_memory(model, input, output, embed_len):
\* false for a null model or embed_len > EMBED_SIZE.
fossil_ai_jellyfish_add_memory_nearest(null, input, output, embed_len) ==
    /\ Alive
    /\ nins < MaxInserts
    /\ IF null = "model" \/ embed_len > EmbedSize
       THEN /\ ret' = Ret("add_memory", "false", <<>>, null)
            /\ UNCHANGED memVars
       ELSE /\ model' = AddNearestStore(model, input, output, embed_len, clock)
            /\ GhostInsert(model)
            /\ ret' = Ret("add_memory", "true", <<>>, null)
            /\ UNCHANGED <<ctx, clock>>
    /\ UNCHANGED <<diskVars, ledgerVars, hashVars, sysVars>>

\* The scan of infer: i runs upward from 0 and replaces the best only when
\* strictly closer, so the lowest slot among the closest ones is kept.
NearestIndex(m, input) ==
    LET d(i) == fossil_ai_jellyfish_distance(input, m.memory[i].embedding, EmbedSize)
    IN  IF m.memory_len = 0 THEN 0
        ELSE CHOOSE b \in 0..(m.memory_len - 1) :
                /\ \A i \in 0..(m.memory_len - 1) : d(b) <= d(i)
                /\ \A i \in 0..(b - 1) : d(i) > d(b)

NearestOut(m, input) ==
    IF m.memory_len > 0
    THEN [i \in 1..m.output_size |->
             IF i <= EmbedSize THEN m.memory[NearestIndex(m, input)].output[i] ELSE 0]
    ELSE [i \in 1..m.output_size |-> IF i <= m.input_size THEN input[i] ELSE 0]

\* bool fossil_ai_jellyfish_infer(model, ctx, input, output) of this variant:
\* the result of its add_memory call is not looked at, and ctx is
\* dereferenced unchecked.  out holds the query, the answer and best_idx.
fossil_ai_jellyfish_infer_nearest(null, input) ==
    /\ Alive
    /\ nins < MaxInserts
    /\ IF null \in {"model", "input", "output"}
       THEN /\ ret' = Ret("infer", "false", <<>>, null)
            /\ UNCHANGED memVars
       ELSE LET output == NearestOut(model, input) \o <<>>
                best   == NearestIndex(model, input)
            IN  /\ IF model.output_size > EmbedSize
                   THEN UNCHANGED <<model, nins, slot_ins, last_idx>>
                   ELSE /\ model' = AddNearestStore(model, input, output,
                                                    model.output_size, clock)
                        /\ GhostInsert(model)
                /\ UNCHANGED clock
                /\ IF null = "ctx"
                   THEN /\ ret' = Ret("infer", "SIGSEGV", <<input, output, best>>, null)
                        /\ UNCHANGED ctx
                   ELSE /\ ret' = Ret("infer", "true", <<input, output, best>>, null)
                        /\ ctx' = [ctx EXCEPT !.timestamp = clock]
    /\ UNCHANGED <<diskVars, ledgerVars, hashVars, sysVars>>

\* The add_memory calls made: the first two store the same embedding with
\* different outputs.
NearestCalls == {<<UnitVec(1), UnitVec(1), EmbedSize>>,
                 <<UnitVec(1), UnitVec(2), EmbedSize>>,
                 <<UnitVec(2), UnitVec(2), EmbedSize + 1>>}

InitNearest ==
    /\ model = fossil_ai_jellyfish_create_model(ModelName, EmbedSize, EmbedSize)
    /\ clock \in 0..MaxTime
    /\ ctx = [session_id |-> <<115>>, history_len |-> 0, timestamp |-> clock]
    /\ nins = 0
    /\ slot_ins = [i \in 0..(MaxMemory - 1) |-> -1]
    /\ last_idx = -1
    /\ RetIdle /\ DiskIdle /\ LedgerIdle /\ HashIdle /\ SysIdle

NextNearest ==
    \/ \E null \in {"none", "model"}, call \in NearestCalls :
          fossil_ai_jellyfish_add_memory_nearest(null, call[1], call[2], call[3])
    \/ \E null \in NullArgs \cup {"ctx"}, k \in 1..EmbedSize :
          fossil_ai_jellyfish_infer_nearest(null, UnitVec(k))

SpecNearest == InitNearest /\ [][NextNearest]_vars

\* C16: when stored records tie on similarity, the earliest-inserted one is
\* selected first, also after the ring has wrapped.
C16_TieEarliestInserted ==
    [][(ret'.fn = "infer" /\ ret'.rc = "true" /\ model.memory_len > 0) =>
         \A o \in 0..(model.memory_len - 1) :
            fossil_ai_jellyfish_distance(ret'.out[1], model.memory[o].embedding, EmbedSize)
              = fossil_ai_jellyfish_distance(ret'.out[1], model.memory[ret'.out[3]].embedding,
                                             EmbedSize)
            => slot_ins[ret'.out[3]] <= slot_ins[o]]_vars

-----------------------------------------------------------------------------
(* Training.  fossil_ai_jellyfish_train runs 20 epochs of stochastic        *)
(* gradient descent over the samples and shuffles the sample order before   *)
(* each epoch with rand().  The floats of this section are fixed-point in   *)
(* units of 1/TrainScale: the learning rate 0.01 and lambda 0.001 need a    *)
(* finer unit than the memory vectors do.                                   *)

\* One unit of the training floats is 1/TrainScale.
TrainScale == 10000
\* for (epoch = 0; epoch < 20; epoch++)
Epochs == 20
\* rand() is a linear congruential generator; its modulus, scaled.
RandMod == 16
\* The state rand() starts a process with: as if srand(1) had been called.
RandInit == 1

\* rand(): the generator advances and returns its new state.
rand(r) == (5 * r + 3) % RandMod

\* srand(seed)
srand(seed) == seed % RandMod

Swap(seq, i, j) == [seq EXCEPT ![i] = seq[j], ![j] = seq[i]]

\* for (i = n - 1; i > 0; i--) { j = rand() % (i + 1); swap(rows[i], rows[j]); }
\* on the 1-based sequence rows: [rows, rng] after the loop from i down.
RECURSIVE ShuffleFrom(_, _, _)
ShuffleFrom(rows, r, i) ==
    IF i <= 0 THEN [rows |-> rows, rng |-> r]
    ELSE LET r1 == rand(r)
         IN  ShuffleFrom(Swap(rows, i + 1, (r1 % (i + 1)) + 1), r1, i - 1)

shuffle_indices(indices, r) == ShuffleFrom(indices, r, Len(indices) - 1)

\* float epoch_lr = lr / (1.0f + 0.05f * epoch), lr = 0.01f
EpochLr(epoch) ==
    ((TrainScale \div 100) * TrainScale) \div (TrainScale + (TrainScale * 5 * epoch) \div 100)

\* One sample: the forward pass, then every weight moves against its gradient
\* with L2 regularization, lambda = 0.001f.
SampleStep(w, in_size, out_size, x, y, epoch) ==
    LET y_hat == [j \in 1..out_size |->
                    SumSeq([i \in 1..in_size |->
                              (w[(j - 1) * in_size + i] * x[i]) \div TrainScale])] \o <<>>
    IN  [k \in 1..(in_size * out_size) |->
            LET j     == ((k - 1) \div in_size) + 1
                i     == ((k - 1) % in_size) + 1
                error == y_hat[j] - y[j]
                grad  == (error * x[i]) \div TrainScale
                           + ((TrainScale \div 1000) * w[k]) \div TrainScale
            IN  w[k] - (EpochLr(epoch) * grad) \div TrainScale] \o <<>>

\* The inner loop of one epoch over the samples in the order of indices.
RECURSIVE EpochFrom(_, _, _, _, _, _, _)
EpochFrom(w, in_size, out_size, samples, indices, idx, epoch) ==
    IF idx > Len(indices) THEN w
    ELSE LET w1 == SampleStep(w, in_size, out_size, samples[indices[idx]].x,
                              samples[indices[idx]].y, epoch)
         IN  IF Len(w1) = Len(w)
             THEN EpochFrom(w1, in_size, out_size, samples, indices, idx + 1, epoch)
             ELSE w

\* The epochs from epoch on: [weights, rng] at the end of the training.
RECURSIVE TrainFrom(_, _, _, _, _, _, _)
TrainFrom(w, in_size, out_size, samples, indices, r, epoch) ==
    IF epoch >= Epochs THEN [weights |-> w, rng |-> r]
    ELSE LET sh == shuffle_indices(indices, r)
             w1 == EpochFrom(w, in_size, out_size, samples, sh.rows, 1, epoch)
         IN  IF Len(w1) = Len(w)
             THEN TrainFrom(w1, in_size, out_size, samples, sh.rows, sh.rng, epoch + 1)
             ELSE [weights |-> w, rng |-> r]

\* The training of model m on the samples in a process whose rand() is in
\* state r.
TrainRun(m, samples, r) ==
    TrainFrom(m.internal_state, m.input_size, m.output_size, samples,
              [n \in 1..Len(samples) |-> n], r, 0)

\* bool fossil_ai_jellyfish_train(model, inputs, targets, count)
fossil_ai_jellyfish_train_weights(null, samples) ==
    /\ model.internal_state = Zeros(model.input_size * model.output_size)
    /\ IF null \in {"model", "inputs", "targets"} \/ Len(samples) = 0
       THEN /\ ret' = Ret("train", "false", <<samples>>, null)
            /\ UNCHANGED <<model, rng>>
       ELSE LET run == TrainRun(model, samples, rng)
            IN  /\ model' = [model EXCEPT !.internal_state = run.weights]
                /\ rng' = run.rng
                /\ ret' = Ret("train", "true", <<samples>>, null)
    /\ UNCHANGED <<ctx, clock, nins, slot_ins, last_idx, kernel, threads, session, detector,
                   diskVars, ledgerVars, hashVars>>

\* The caller frees the trained model and creates a new one.
NewTrainModel ==
    /\ model.internal_state # Zeros(model.input_size * model.output_size)
    /\ model' = fossil_ai_jellyfish_create_model(ModelName, 1, 1)
    /\ ret' = Ret("create_model", "ptr", <<>>, "none")
    /\ UNCHANGED <<ctx, clock, nins, slot_ins, last_idx, diskVars, ledgerVars, hashVars, sysVars>>

\* bool fossil_ai_data_shuffle(data, stride, count, seed): srand(seed), then
\* the rows are shuffled with rand().  out holds the shuffled rows.
fossil_ai_data_shuffle(null, data, stride, seed) ==
    /\ IF null = "data" \/ stride = 0 \/ Len(data) = 0
       THEN /\ ret' = Ret("data_shuffle", "false", <<data>>, null)
            /\ UNCHANGED rng
       ELSE LET sh == ShuffleFrom(data, srand(seed), Len(data) - 1)
            IN  /\ ret' = Ret("data_shuffle", "true", <<sh.rows>>, null)
                /\ rng' = sh.rng
    /\ UNCHANGED <<memVars, kernel, threads, session, detector, diskVars, ledgerVars, hashVars>>

\* The sample sets trained on: one float in, one float out.
SampleSets ==
    {<<[x |-> <<2 * TrainScale>>, y |-> <<TrainScale>>],
       [x |-> <<TrainScale>>, y |-> <<2 * TrainScale>>]>>,
     <<[x |-> <<TrainScale>>, y |-> <<TrainScale>>],
       [x |-> <<TrainScale>>, y |-> <<0>>],
       [x |-> <<2 * TrainScale>>, y |-> <<TrainScale>>]>>,
     <<>>}

\* The seeds and rows handed to fossil_ai_data_shuffle.
Seeds == {0, 1, 2, 7}
ShuffleData == {<<<<1>>, <<2>>, <<3>>>>, <<<<1>>, <<2>>>>, <<>>}

InitTrain ==
    /\ model = fossil_ai_jellyfish_create_model(ModelName, 1, 1)
    /\ ctx = [session_id |-> <<>>, history_len |-> 0, timestamp |-> 0]
    /\ clock = 0
    /\ nins = 0
    /\ slot_ins = [i \in 0..(MaxMemory - 1) |-> -1]
    /\ last_idx = -1
    /\ rng = RandInit
    /\ kernel = <<>> /\ threads = <<>> /\ session = <<>> /\ detector = <<>>
    /\ DiskIdle /\ LedgerIdle /\ HashIdle /\ RetIdle

NextTrain ==
    \/ \E null \in {"none", "model", "inputs", "targets"}, samples \in SampleSets :
          fossil_ai_jellyfish_train_weights(null, samples)
    \/ NewTrainModel
    \/ \E null \in {"none", "data"}, data \in ShuffleData, seed \in Seeds :
          fossil_ai_data_shuffle(null, data, 1, seed)

SpecTrain == InitTrain /\ [][NextTrain]_vars

\* C21: a train run that starts from given weights with given samples ends
\* with the weights the same run ends with in a process where no other
\* library call was made before it.
C21_TrainReproducible ==
    [][(ret'.fn = "train" /\ ret'.rc = "true") =>
          model'.internal_state = TrainRun(model, ret'.out[1], RandInit).weights]_vars

-----------------------------------------------------------------------------
(* SpecBlend: infer on a fresh model after records with fractional values  *)
(* were stored.                                                            *)

\* A decimal d/10 in units of 1/FScale, rounded to nearest.
Tenths(d) == (d * FScale + 5) \div 10

\* input {0.2, 0.8} and output {0.9, 0.1} of the stored record, and a second
\* input {0.8, 0.2}.
BlendInput == <<Tenths(2), Tenths(8)>>
BlendOutput == <<Tenths(9), Tenths(1)>>
OtherInput == <<Tenths(8), Tenths(2)>>

NextBlend ==
    \/ \E input \in {BlendInput, OtherInput} :
          fossil_ai_jellyfish_add_memory("none", input, BlendOutput, EmbedSize)
    \/ \E input \in {BlendInput, OtherInput} :
          fossil_ai_jellyfish_infer("none", input)

SpecBlend == InitMemory /\ [][NextBlend]_vars

AbsDiff(a, b) == IF a < b THEN b - a ELSE a - b

\* C23: on a freshly created model that holds exactly one record (x, y),
\* infer(x) returns an output whose every entry is within 0.2 of y.
C23_SingleRecordWithinTolerance ==
    [][(/\ nins = 1
        /\ model.memory_len = 1
        /\ model.input_size = EmbedSize /\ model.output_size = EmbedSize
        /\ ret'.fn = "infer" /\ ret'.rc = "true"
        /\ ret'.out[1] = model.memory[0].embedding)
          => \A j \in 1..model.output_size :
                5 * AbsDiff(ret'.out[2][j], model.memory[0].output[j]) < FScale]_vars

-----------------------------------------------------------------------------
(* The kernel with a task queue (kernel.c, second kernel): a process-wide  *)
(* g_kernel holding the list of registered models, the singly linked task  *)
(* queue with its head and tail pointers, and a mutex.  A pointer is the   *)
(* index of its node in the sequence of allocations, NULL is 0.            *)

\* The number of task nodes and of model nodes the process allocates.
MaxTasks == 3
MaxModelNodes == 3

\* NULL
NULL == 0

\* The task_data pointers callers pass to run.
TaskData == {NULL, 1, 2}

\* static fossil_ai_kernel_ctx_t g_kernel = {0}, after fossil_ai_kernel_init.
\* nodes and mnodes are the heap: every task node and model node allocated so
\* far; lock is the thread that holds the mutex, 0 when none does.
\* submitted and executed are history: the nodes of the successful run
\* calls and the nodes whose task step took, in call order.
KernelInit ==
    [models    |-> NULL,
     task_head |-> NULL,
     task_tail |-> NULL,
     lock      |-> 0,
     nodes     |-> <<>>,
     mnodes    |-> <<>>,
     submitted |-> <<>>,
     executed  |-> <<>>]

\* The locked part of run with the new node added at the front of the queue.
QueueAppend_front(k, task_data) ==
    LET task == Len(k.nodes) + 1
    IN  [k EXCEPT !.nodes     = Append(k.nodes, [data |-> task_data, next |-> k.task_head,
                                                 freed |-> FALSE]),
                  !.task_head = task,
                  !.task_tail = IF k.task_tail # NULL THEN k.task_tail ELSE task]

\* The locked part of fossil_ai_kernel_run:
\*   if (task_tail) task_tail->next = task; else task_head = task;
\*   task_tail = task;
QueueAppend(k, task_data) ==
    LET task  == Len(k.nodes) + 1
        nodes == Append(k.nodes, [data |-> task_data, next |-> NULL, freed |-> FALSE])
    IN  [k EXCEPT !.nodes     = IF k.task_tail # NULL
                                THEN [nodes EXCEPT ![k.task_tail].next = task]
                                ELSE nodes,
                  !.task_head = IF k.task_tail # NULL THEN k.task_head ELSE task,
                  !.task_tail = task]

\* The locked part of fossil_ai_kernel_step when a task is queued:
\*   task_head = task->next; if (!task_head) task_tail = NULL;
QueueTake(k) ==
    LET task == k.task_head
        head == k.nodes[task].next
    IN  [k EXCEPT !.task_head = head,
                  !.task_tail = IF head = NULL THEN NULL ELSE k.task_tail]

\* The loop of introspect: the number of nodes from t to the end of the list.
RECURSIVE CountTasks(_, _)
CountTasks(k, t) == IF t = NULL THEN 0 ELSE 1 + CountTasks(k, k.nodes[t].next)

\* int fossil_ai_kernel_run(void* task_data)
fossil_ai_kernel_run(task_data, malloc_null) ==
    /\ Len(kernel.nodes) < MaxTasks
    /\ IF task_data = NULL
       THEN /\ ret' = Ret("run", "-1", <<>>, "task_data")
            /\ UNCHANGED kernel
       ELSE IF malloc_null
       THEN /\ ret' = Ret("run", "-2", <<>>, "none")
            /\ UNCHANGED kernel
       ELSE /\ kernel' = [QueueAppend(kernel, task_data) EXCEPT
                             !.submitted = Append(@, Len(kernel.nodes) + 1)]
            /\ ret' = Ret("run", "0", <<>>, "none")
    /\ UNCHANGED <<rng, threads, session, detector>>
    /\ UNCHANGED <<memVars, diskVars, ledgerVars, hashVars>>

\* int fossil_ai_kernel_step(void): takes the head node, runs its function
\* and frees the node.
fossil_ai_kernel_step ==
    /\ IF kernel.task_head = NULL
       THEN /\ ret' = Ret("step", "-1", <<>>, "none")
            /\ UNCHANGED kernel
       ELSE LET task == kernel.task_head
            IN  /\ kernel' = [QueueTake(kernel) EXCEPT
                                 !.executed = Append(@, task),
                                 !.nodes[task].freed = TRUE]
                /\ ret' = Ret("step", "0", <<kernel.nodes[task].data>>, "none")
    /\ UNCHANGED <<rng, threads, session, detector>>
    /\ UNCHANGED <<memVars, diskVars, ledgerVars, hashVars>>

\* int fossil_ai_kernel_introspect(void* out): the number of queued tasks.
fossil_ai_kernel_introspect(null) ==
    /\ IF null = "out"
       THEN ret' = Ret("introspect", "-1", <<>>, null)
       ELSE ret' = Ret("introspect", "0", <<CountTasks(kernel, kernel.task_head)>>, null)
    /\ UNCHANGED kernel
    /\ UNCHANGED <<rng, threads, session, detector>>
    /\ UNCHANGED <<memVars, diskVars, ledgerVars, hashVars>>

InitQueue ==
    /\ kernel = KernelInit
    /\ rng = 0 /\ threads = <<>> /\ session = <<>> /\ detector = <<>>
    /\ MemIdle /\ RetIdle /\ DiskIdle /\ LedgerIdle /\ HashIdle

NextQueue ==
    \/ \E task_data \in TaskData, malloc_null \in BOOLEAN :
          fossil_ai_kernel_run(task_data, malloc_null)
    \/ fossil_ai_kernel_step
    \/ \E null \in {"none", "out"} : fossil_ai_kernel_introspect(null)

SpecQueue == InitQueue /\ [][NextQueue]_vars

\* C24: the tasks step has executed are, in order, the tasks of the first
\* successful run calls (so the n-th successful step executes the task of the
\* n-th successful run and none is executed twice), and a step call returns
\* -1 exactly when every submitted task has been executed already.
C24_QueueFifo ==
    [][/\ kernel'.executed = SubSeq(kernel'.submitted, 1, Len(kernel'.executed))
       /\ ret'.fn = "step" =>
             /\ (ret'.rc = "-1") <=> (Len(kernel.executed) = Len(kernel.submitted))
             /\ ret'.rc = "0" =>
                   ret'.out[1] = kernel.nodes[kernel.submitted[Len(kernel.executed) + 1]].data
       /\ ret'.fn = "introspect" /\ ret'.rc = "0" =>
             ret'.out[1] = Len(kernel.submitted) - Len(kernel.executed)]_vars

\* MaxTasks tasks, the first two with different data, were submitted and
\* executed, and the step after the last of them found the queue empty.
C24_Witness ==
    /\ Len(kernel.submitted) = MaxTasks
    /\ kernel.executed = kernel.submitted
    /\ kernel.nodes[1].data # kernel.nodes[2].data
    /\ ret.fn = "step" /\ ret.rc = "-1"

-----------------------------------------------------------------------------
(* SpecThreads: run, step and introspect called from several threads.  A   *)
(* thread executes one statement of its call at a time; pc is the          *)
(* statement it is at and task its local variable.  What a call returns is *)
(* its thread's own business and is not recorded.                          *)

NumThreads == 2
Threads == 1..NumThreads

\* kernel_lock returns without waiting.
LockFree_always(k) == TRUE

\* kernel_lock: pthread_mutex_lock returns once no thread holds the mutex.
LockFree(k) == k.lock = 0

SetPc(t, pc, task) == threads' = [threads EXCEPT ![t] = [pc |-> pc, task |-> task]]

MemUnchanged == UNCHANGED <<ret, rng, session, detector, memVars, diskVars, ledgerVars, hashVars>>

\* run: the NULL check, malloc and the initialisation of the node.
T_run_begin(t, task_data) ==
    /\ threads[t].pc = "idle"
    /\ Len(kernel.nodes) < MaxTasks
    /\ IF task_data = NULL
       THEN UNCHANGED <<kernel, threads>>
       ELSE /\ kernel' = [kernel EXCEPT !.nodes = Append(@, [data |-> task_data, next |-> NULL,
                                                             freed |-> FALSE])]
            /\ SetPc(t, "run_lock", Len(kernel.nodes) + 1)
    /\ MemUnchanged

T_step_begin(t) ==
    /\ threads[t].pc = "idle"
    /\ SetPc(t, "step_lock", NULL)
    /\ UNCHANGED kernel
    /\ MemUnchanged

\* introspect: the NULL check of out.
T_introspect_begin(t, null) ==
    /\ threads[t].pc = "idle"
    /\ IF null = "out"
       THEN UNCHANGED threads
       ELSE SetPc(t, "introspect_lock", NULL)
    /\ UNCHANGED kernel
    /\ MemUnchanged

\* kernel_lock() of the three functions.
T_kernel_lock(t) ==
    /\ threads[t].pc \in {"run_lock", "step_lock", "introspect_lock"}
    /\ LockFree(kernel)
    /\ kernel' = [kernel EXCEPT !.lock = t]
    /\ SetPc(t, CASE threads[t].pc = "run_lock" -> "run_link"
                  [] threads[t].pc = "step_lock" -> "step_read"
                  [] OTHER -> "introspect_count", threads[t].task)
    /\ MemUnchanged

\* if (g_kernel.task_tail) g_kernel.task_tail->next = task;
\* else g_kernel.task_head = task;
T_run_link(t) ==
    /\ threads[t].pc = "run_link"
    /\ kernel' = [kernel EXCEPT
                     !.nodes     = IF kernel.task_tail # NULL
                                   THEN [@ EXCEPT ![kernel.task_tail].next = threads[t].task]
                                   ELSE @,
                     !.task_head = IF kernel.task_tail # NULL THEN @ ELSE threads[t].task,
                     !.submitted = Append(@, threads[t].task)]
    /\ SetPc(t, "run_tail", threads[t].task)
    /\ MemUnchanged

\* g_kernel.task_tail = task;
T_run_tail(t) ==
    /\ threads[t].pc = "run_tail"
    /\ kernel' = [kernel EXCEPT !.task_tail = threads[t].task]
    /\ SetPc(t, "run_unlock", threads[t].task)
    /\ MemUnchanged

\* fossil_ai_task_t* task = g_kernel.task_head; if (!task) ...
T_step_read(t) ==
    /\ threads[t].pc = "step_read"
    /\ IF kernel.task_head = NULL
       THEN /\ SetPc(t, "step_unlock_empty", NULL)
            /\ UNCHANGED kernel
       ELSE /\ SetPc(t, "step_head", kernel.task_head)
            /\ kernel' = [kernel EXCEPT !.executed = Append(@, kernel.task_head)]
    /\ MemUnchanged

\* g_kernel.task_head = task->next;
T_step_head(t) ==
    /\ threads[t].pc = "step_head"
    /\ kernel' = [kernel EXCEPT !.task_head = kernel.nodes[threads[t].task].next]
    /\ SetPc(t, "step_tail", threads[t].task)
    /\ MemUnchanged

\* if (!g_kernel.task_head) g_kernel.task_tail = NULL;
T_step_tail(t) ==
    /\ threads[t].pc = "step_tail"
    /\ kernel' = [kernel EXCEPT !.task_tail = IF kernel.task_head = NULL THEN NULL ELSE @]
    /\ SetPc(t, "step_unlock", threads[t].task)
    /\ MemUnchanged

\* kernel_unlock() of step with a task in hand.
T_step_unlock(t) ==
    /\ threads[t].pc = "step_unlock"
    /\ kernel' = [kernel EXCEPT !.lock = 0]
    /\ SetPc(t, "step_exec", threads[t].task)
    /\ MemUnchanged

\* fn(); free(task); return 0;
T_step_exec(t) ==
    /\ threads[t].pc = "step_exec"
    /\ kernel' = [kernel EXCEPT !.nodes[threads[t].task].freed = TRUE]
    /\ SetPc(t, "idle", NULL)
    /\ MemUnchanged

\* The loop of introspect, made under the lock.
T_introspect_count(t) ==
    /\ threads[t].pc = "introspect_count"
    /\ SetPc(t, "introspect_unlock", CountTasks(kernel, kernel.task_head))
    /\ UNCHANGED kernel
    /\ MemUnchanged

\* kernel_unlock() and the return of run, of introspect, and of step on an
\* empty queue.
T_unlock_return(t) ==
    /\ threads[t].pc \in {"run_unlock", "step_unlock_empty", "introspect_unlock"}
    /\ kernel' = [kernel EXCEPT !.lock = 0]
    /\ SetPc(t, "idle", NULL)
    /\ MemUnchanged

InitThreads ==
    /\ kernel = KernelInit
    /\ threads = [t \in Threads |-> [pc |-> "idle", task |-> NULL]]
    /\ rng = 0 /\ session = <<>> /\ detector = <<>>
    /\ MemIdle /\ RetIdle /\ DiskIdle /\ LedgerIdle /\ HashIdle

NextThreads ==
    \E t \in Threads :
        \/ \E task_data \in {NULL, 1} : T_run_begin(t, task_data)
        \/ T_step_begin(t)
        \/ \E null \in {"none", "out"} : T_introspect_begin(t, null)
        \/ T_kernel_lock(t)
        \/ T_run_link(t)
        \/ T_run_tail(t)
        \/ T_step_read(t)
        \/ T_step_head(t)
        \/ T_step_tail(t)
        \/ T_step_unlock(t)
        \/ T_step_exec(t)
        \/ T_introspect_count(t)
        \/ T_unlock_return(t)

SpecThreads == InitThreads /\ [][NextThreads]_vars

\* The nodes from t to the end of the list, following at most fuel links.
RECURSIVE QueueFrom(_, _, _)
QueueFrom(k, t, fuel) ==
    IF t = NULL \/ fuel = 0 THEN <<>>
    ELSE <<t>> \o QueueFrom(k, k.nodes[t].next, fuel - 1)

QueueList(k) == QueueFrom(k, k.task_head, MaxTasks + 1)

\* C25: with run, step and introspect called from several threads, no task is
\* taken by two step calls, and whenever no thread is inside the locked part
\* of a call the tail pointer is null exactly when the head pointer is, the
\* tail is the last node of the queue, and the tasks taken followed by the
\* tasks queued are the tasks submitted (none lost).
C25_ConcurrentQueueWellFormed ==
    /\ \A i, j \in 1..Len(kernel.executed) : kernel.executed[i] = kernel.executed[j] => i = j
    /\ kernel.lock = 0 =>
          /\ (kernel.task_tail = NULL) <=> (kernel.task_head = NULL)
          /\ kernel.executed \o QueueList(kernel) = kernel.submitted
          /\ kernel.task_head # NULL =>
                kernel.task_tail = QueueList(kernel)[Len(QueueList(kernel))]

\* A thread is inside run on an empty queue, between the two assignments
\* (head set, tail still null), while another thread waits for the lock in
\* step, after a task was taken already.
C25_Witness ==
    \E a, b \in Threads :
        /\ a # b
        /\ threads[a].pc = "run_tail"
        /\ threads[b].pc = "step_lock"
        /\ kernel.lock = a
        /\ kernel.task_head # NULL /\ kernel.task_tail = NULL
        /\ Len(kernel.executed) >= 1

-----------------------------------------------------------------------------
(* SpecRegistry: the model registry and the life cycle of the kernel with  *)
(* the task queue.  The kernel has no "initialised" field; lock = -1       *)
(* stands for a mutex that shutdown has destroyed.                         *)

\* The model pointers callers register.
ModelPtrs == {NULL, 1, 2}

\* The model nodes from m to the end of the list.
RECURSIVE ModelNodesFrom(_, _)
ModelNodesFrom(k, m) ==
    IF m = NULL THEN <<>> ELSE <<m>> \o ModelNodesFrom(k, k.mnodes[m].next)

ModelNodes(k) == ModelNodesFrom(k, k.models)

\* The registered model pointers, first node first.
Registry(k) == [i \in 1..Len(ModelNodes(k)) |-> k.mnodes[ModelNodes(k)[i]].model]

\* int fossil_ai_kernel_init(void): memset(&g_kernel, 0, sizeof g_kernel)
\* whatever the kernel holds, then the mutex is initialised.  The nodes the
\* lists held stay allocated.
fossil_ai_kernel_init(mutex_fails) ==
    /\ kernel' = [kernel EXCEPT !.models = NULL, !.task_head = NULL, !.task_tail = NULL,
                                !.lock = IF mutex_fails THEN -1 ELSE 0]
    /\ ret' = Ret("init", IF mutex_fails THEN "-1" ELSE "0",
                  <<kernel.lock # -1>>, "none")
    /\ UNCHANGED <<rng, threads, session, detector>>
    /\ UNCHANGED <<memVars, diskVars, ledgerVars, hashVars>>

\* int fossil_ai_kernel_shutdown(void): frees every task node and every model
\* node, then destroys the mutex.
fossil_ai_kernel_shutdown ==
    /\ kernel.lock # -1
    /\ kernel' = [kernel EXCEPT
                     !.nodes  = [i \in 1..Len(@) |->
                                   IF \E q \in 1..Len(QueueList(kernel)) : QueueList(kernel)[q] = i
                                   THEN [@[i] EXCEPT !.freed = TRUE] ELSE @[i]],
                     !.mnodes = [i \in 1..Len(@) |->
                                   IF \E q \in 1..Len(ModelNodes(kernel)) : ModelNodes(kernel)[q] = i
                                   THEN [@[i] EXCEPT !.freed = TRUE] ELSE @[i]],
                     !.task_head = NULL, !.task_tail = NULL, !.models = NULL,
                     !.lock = -1]
    /\ ret' = Ret("shutdown", "0", <<>>, "none")
    /\ UNCHANGED <<rng, threads, session, detector>>
    /\ UNCHANGED <<memVars, diskVars, ledgerVars, hashVars>>

\* int fossil_ai_kernel_register_model(void* model): a new node at the front
\* of the list; the list is not searched for the model.
fossil_ai_kernel_register_model(mptr, malloc_null) ==
    /\ kernel.lock # -1
    /\ Len(kernel.mnodes) < MaxModelNodes
    /\ IF mptr = NULL
       THEN /\ ret' = Ret("register_model", "-1", <<mptr>>, "model")
            /\ UNCHANGED kernel
       ELSE IF malloc_null
       THEN /\ ret' = Ret("register_model", "-2", <<mptr>>, "none")
            /\ UNCHANGED kernel
       ELSE /\ kernel' = [kernel EXCEPT
                             !.mnodes = Append(@, [model |-> mptr, next |-> kernel.models,
                                                   freed |-> FALSE]),
                             !.models = Len(kernel.mnodes) + 1]
            /\ ret' = Ret("register_model", "0", <<mptr>>, "none")
    /\ UNCHANGED <<rng, threads, session, detector>>
    /\ UNCHANGED <<memVars, diskVars, ledgerVars, hashVars>>

\* int fossil_ai_kernel_unregister_model(void* model): unlinks and frees the
\* first node that holds the model; -2 when none does.
fossil_ai_kernel_unregister_model(mptr) ==
    /\ kernel.lock # -1
    /\ LET l    == ModelNodes(kernel)
           hits == {i \in 1..Len(l) : kernel.mnodes[l[i]].model = mptr}
           i    == CHOOSE h \in hits : \A g \in hits : h <= g
       IN  IF mptr = NULL
           THEN /\ ret' = Ret("unregister_model", "-1", <<mptr>>, "model")
                /\ UNCHANGED kernel
           ELSE IF hits = {}
           THEN /\ ret' = Ret("unregister_model", "-2", <<mptr>>, "none")
                /\ UNCHANGED kernel
           ELSE /\ kernel' = [kernel EXCEPT
                                 !.models = IF i = 1 THEN kernel.mnodes[l[1]].next ELSE @,
                                 !.mnodes = [n \in 1..Len(@) |->
                                               IF n = l[i] THEN [@[n] EXCEPT !.freed = TRUE]
                                               ELSE IF i > 1 /\ n = l[i - 1]
                                               THEN [@[n] EXCEPT !.next = kernel.mnodes[l[i]].next]
                                               ELSE @[n]]]
                /\ ret' = Ret("unregister_model", "0", <<mptr>>, "none")
    /\ UNCHANGED <<rng, threads, session, detector>>
    /\ UNCHANGED <<memVars, diskVars, ledgerVars, hashVars>>

\* int fossil_ai_kernel_audit_snapshot(void* out): the length of the list.
fossil_ai_kernel_audit_snapshot(null) ==
    /\ kernel.lock # -1
    /\ IF null = "out"
       THEN ret' = Ret("audit_snapshot", "-1", <<>>, null)
       ELSE ret' = Ret("audit_snapshot", "0", <<Len(ModelNodes(kernel))>>, null)
    /\ UNCHANGED kernel
    /\ UNCHANGED <<rng, threads, session, detector>>
    /\ UNCHANGED <<memVars, diskVars, ledgerVars, hashVars>>

NextRegistry ==
    \/ \E mutex_fails \in BOOLEAN : fossil_ai_kernel_init(mutex_fails)
    \/ fossil_ai_kernel_shutdown
    \/ \E mptr \in ModelPtrs, malloc_null \in BOOLEAN :
          fossil_ai_kernel_register_model(mptr, malloc_null)
    \/ \E mptr \in ModelPtrs : fossil_ai_kernel_unregister_model(mptr)
    \/ \E null \in {"none", "out"} : fossil_ai_kernel_audit_snapshot(null)
    \/ kernel.lock # -1 /\ fossil_ai_kernel_run(1, FALSE)

SpecRegistry == InitQueue /\ [][NextRegistry]_vars

\* C26: a call of init on a kernel that is initialised already leaves the
\* registered models and the queued tasks as they were.
C26_InitIdempotent ==
    [][(ret'.fn = "init" /\ kernel.lock # -1) =>
          /\ Registry(kernel') = Registry(kernel)
          /\ QueueList(kernel') = QueueList(kernel)]_vars

\* The model pointers the registry holds.
Registered(k) == {Registry(k)[i] : i \in 1..Len(Registry(k))}

\* C27: the registry holds no model twice and the count audit_snapshot
\* reports is the number of registered models; registering a model that is
\* registered and unregistering one that is not leave the registry as it
\* was; after shutdown the registry is empty.
C27_RegistryIsASet ==
    [][/\ Len(Registry(kernel')) = Cardinality(Registered(kernel'))
       /\ (ret'.fn = "audit_snapshot" /\ ret'.rc = "0") =>
             ret'.out[1] = Cardinality(Registered(kernel))
       /\ (ret'.fn = "register_model" /\ ret'.out[1] \in Registered(kernel)) =>
             Registry(kernel') = Registry(kernel)
       /\ (ret'.fn = "unregister_model" /\ ret'.out[1] \notin Registered(kernel)) =>
             Registry(kernel') = Registry(kernel)
       /\ ret'.fn = "shutdown" => Registry(kernel') = <<>>]_vars

-----------------------------------------------------------------------------
(* Chat sessions: a session holds a growing array of messages; chat_turn   *)
(* appends the user message, asks the model with the context made of all   *)
(* messages, and appends the reply.                                        *)

\* message_capacity of a new session (8 in the source), scaled.
InitialCapacity == 2
\* The number of messages a session is driven to.
MaxMessages == 4

\* "hi", "yo"
UserInputs == {<<104, 105>>, <<121, 111>>}

\* fossil_ai_chat_session_create(core, model, session_id): the pointers are
\* stored unchecked.
fossil_ai_chat_session_create(core, mptr) ==
    [core             |-> core,
     model            |-> mptr,
     messages         |-> <<>>,
     message_capacity |-> InitialCapacity]

\* fossil_ai_chat_add_message on session s: the array is doubled when full
\* (realloc_null: that realloc fails); rc and the session after the call.
AddMessage(s, role, content, realloc_null) ==
    IF Len(s.messages) >= s.message_capacity /\ realloc_null
    THEN [rc |-> "-1", session |-> s]
    ELSE [rc |-> "0",
          session |-> [s EXCEPT
                          !.message_capacity = IF Len(s.messages) >= @ THEN @ * 2 ELSE @,
                          !.messages = Append(@, [role |-> role, content |-> content])]]

fossil_ai_chat_add_message(role, content, realloc_null) ==
    /\ Len(session.messages) < MaxMessages
    /\ session' = AddMessage(session, role, content, realloc_null).session
    /\ ret' = Ret("add_message", AddMessage(session, role, content, realloc_null).rc,
                  <<content>>, "none")
    /\ UNCHANGED <<rng, kernel, threads, detector>>
    /\ UNCHANGED <<memVars, diskVars, ledgerVars, hashVars>>

\* fossil_ai_jellyfish_ask(core, model, ctx, question, answer): -1 for a null
\* argument, else an answer made of the question and the context.
AskRc(s) == IF s.core = NULL \/ s.model = NULL THEN "-1" ELSE "0"
AskAnswer(s, question) == [question |-> question, num_blobs |-> Len(s.messages)]

\* int fossil_ai_chat_turn(session, user_input, assistant_output).  The user
\* message is appended before the context is built and the model asked; the
\* result of appending the reply is not looked at.
fossil_ai_chat_turn(null, user_input, realloc_null) ==
    /\ Len(session.messages) + 2 <= MaxMessages
    /\ IF null # "none"
       THEN /\ ret' = Ret("chat_turn", "-1", <<user_input>>, null)
            /\ UNCHANGED session
       ELSE LET user == AddMessage(session, "user", user_input, realloc_null[1])
                s1   == user.session
                a    == AddMessage(s1, "assistant", AskAnswer(s1, user_input), realloc_null[2])
            IN  IF user.rc # "0"
                THEN /\ ret' = Ret("chat_turn", "-1", <<user_input>>, null)
                     /\ UNCHANGED session
                ELSE IF AskRc(s1) # "0"
                THEN /\ ret' = Ret("chat_turn", AskRc(s1), <<user_input>>, null)
                     /\ session' = s1
                ELSE /\ ret' = Ret("chat_turn", "0",
                                   <<user_input, AskAnswer(s1, user_input)>>, null)
                     /\ session' = a.session
    /\ UNCHANGED <<rng, kernel, threads, detector>>
    /\ UNCHANGED <<memVars, diskVars, ledgerVars, hashVars>>

InitSession ==
    /\ \E core \in {NULL, 1}, mptr \in {NULL, 1} :
          session = fossil_ai_chat_session_create(core, mptr)
    /\ rng = 0 /\ kernel = <<>> /\ threads = <<>> /\ detector = <<>>
    /\ MemIdle /\ RetIdle /\ DiskIdle /\ LedgerIdle /\ HashIdle

NextSession ==
    \/ \E role \in {"user", "system"}, content \in UserInputs, realloc_null \in BOOLEAN :
          fossil_ai_chat_add_message(role, content, realloc_null)
    \/ \E null \in {"none", "session", "user_input", "assistant_output"},
          user_input \in UserInputs, realloc_null \in BOOLEAN \X BOOLEAN :
          fossil_ai_chat_turn(null, user_input, realloc_null)

SpecSession == InitSession /\ [][NextSession]_vars

\* C28: a chat_turn that returns an error leaves the messages of the session
\* as they were; one that returns 0 has appended exactly the user message and
\* then the assistant's reply.
C28_TurnAllOrNothing ==
    [][ret'.fn = "chat_turn" =>
          /\ ret'.rc # "0" => session'.messages = session.messages
          /\ ret'.rc = "0" =>
                session'.messages =
                    session.messages \o <<[role |-> "user", content |-> ret'.out[1]],
                                          [role |-> "assistant", content |-> ret'.out[2]]>>]_vars

-----------------------------------------------------------------------------
(* Context key/value pairs: set_kv appends a pair to two parallel arrays,  *)
(* get_kv scans them from the front.                                       *)

\* The number of set_kv calls made on the context.
MaxKv == 3

\* "a", "b"
KvKeys == {<<97>>, <<98>>}
\* "x", "y"
KvValues == {<<120>>, <<121>>}

\* fossil_ai_jellyfish_context_create: calloc, no pairs.
NewKvContext == [keys |-> <<>>, values |-> <<>>]

\* void fossil_ai_jellyfish_context_set_kv(ctx, key, value)
fossil_ai_jellyfish_context_set_kv(null, key, value) ==
    /\ Len(ctx.keys) < MaxKv
    /\ IF null # "none"
       THEN UNCHANGED ctx
       ELSE ctx' = [keys |-> Append(ctx.keys, key), values |-> Append(ctx.values, value)]
    /\ ret' = Ret("set_kv", "void", <<key, value>>, null)
    /\ UNCHANGED <<model, clock, nins, slot_ins, last_idx>>
    /\ UNCHANGED <<diskVars, ledgerVars, hashVars, sysVars>>

\* The value get_kv returns: that of the first pair whose key compares equal,
\* NULL (here the empty tuple) when there is none.
GetKv(c, key) ==
    LET hits == {i \in 1..Len(c.keys) : c.keys[i] = key}
    IN  IF hits = {} THEN <<>>
        ELSE c.values[CHOOSE i \in hits : \A j \in hits : i <= j]

\* const char *fossil_ai_jellyfish_context_get_kv(ctx, key)
fossil_ai_jellyfish_context_get_kv(null, key) ==
    /\ ret' = Ret("get_kv", "returned", <<key, IF null # "none" THEN <<>> ELSE GetKv(ctx, key)>>,
                  null)
    /\ UNCHANGED memVars
    /\ UNCHANGED <<diskVars, ledgerVars, hashVars, sysVars>>

InitKv ==
    /\ ctx = NewKvContext
    /\ model = NoModel /\ clock = 0 /\ nins = 0 /\ last_idx = -1
    /\ slot_ins = [i \in 0..(MaxMemory - 1) |-> -1]
    /\ RetIdle /\ DiskIdle /\ LedgerIdle /\ HashIdle /\ SysIdle

NextKv ==
    \/ \E null \in {"none", "ctx", "key", "value"}, key \in KvKeys, value \in KvValues :
          fossil_ai_jellyfish_context_set_kv(null, key, value)
    \/ \E null \in {"none", "ctx", "key"}, key \in KvKeys :
          fossil_ai_jellyfish_context_get_kv(null, key)

SpecKv == InitKv /\ [][NextKv]_vars

\* C29: get_kv(key) on a context where the key has been set returns the
\* value of the most recent set_kv(key, v).
C29_GetReturnsLatest ==
    [][(ret'.fn = "get_kv" /\ ret'.null = "none"
        /\ \E i \in 1..Len(ctx.keys) : ctx.keys[i] = ret'.out[1]) =>
          LET key  == ret'.out[1]
              sets == {i \in 1..Len(ctx.keys) : ctx.keys[i] = key}
              last == CHOOSE i \in sets : \A j \in sets : j <= i
          IN  ret'.out[2] = ctx.values[last]]_vars

-----------------------------------------------------------------------------
(* The anomaly detector: a fixed array of history records and its length.  *)
(* The file of a detector is the length (one size_t) followed by that many *)
(* records; here the length is one cell and every record one cell.         *)

\* FOSSIL_AI_ANOM_MAX_HISTORY (1024 in the source), scaled.
FOSSIL_AI_ANOM_MAX_HISTORY == 2

\* The data arrays passed to detect, in units of 1/FScale.
AnomData == {<<FScale>>, <<0, 0, FScale>>, <<0, FScale>>}
\* The thresholds passed to detect.
AnomThresholds == {FScale}

\* fossil_ai_anom_create: calloc.
fossil_ai_anom_create == [history |-> <<>>, history_len |-> 0]

\* The z-score of the last element: |data[len-1] - mean| / std, 0 when the
\* standard deviation is 0.
ZScore(data) ==
    LET len  == Len(data)
        mean == SumSeq(data) \div len
        std  == ISqrt(SumSeq([i \in 1..len |-> (data[i] - mean) * (data[i] - mean)]) \div len)
    IN  IF std > 0 THEN (AbsDiff(data[len], mean) * FScale) \div std ELSE 0

\* bool fossil_ai_anom_detect_statistical(detector, data, len, threshold, score)
fossil_ai_anom_detect_statistical(null, data, threshold, now) ==
    /\ IF null # "none"
       THEN /\ ret' = Ret("detect_statistical", "false", <<>>, null)
            /\ UNCHANGED detector
       ELSE LET z   == ZScore(data)
                rec == [score |-> z, type |-> "STATISTICAL", timestamp |-> now]
            IN  /\ detector' = IF detector.history_len < FOSSIL_AI_ANOM_MAX_HISTORY
                               THEN [history     |-> Append(detector.history, rec),
                                     history_len |-> detector.history_len + 1]
                               ELSE detector
                /\ ret' = Ret("detect_statistical", IF z > threshold THEN "true" ELSE "false",
                              <<z>>, null)
    /\ UNCHANGED disk
    /\ UNCHANGED <<rng, kernel, threads, session, loaded, saved, corrupt>>
    /\ UNCHANGED <<memVars, ledgerVars, hashVars>>

\* bool fossil_ai_anom_save(detector, filepath): history_len, then
\* history_len records.
fossil_ai_anom_save(null, fopen_ok) ==
    /\ IF null # "none" \/ ~fopen_ok
       THEN /\ ret' = Ret("anom_save", "false", <<>>, null)
            /\ UNCHANGED disk
       ELSE /\ disk' = [exists |-> TRUE,
                        bytes  |-> <<detector.history_len>> \o detector.history]
            /\ ret' = Ret("anom_save", "true", <<>>, null)
    /\ UNCHANGED detector
    /\ UNCHANGED <<rng, kernel, threads, session, loaded, saved, corrupt>>
    /\ UNCHANGED <<memVars, ledgerVars, hashVars>>

\* Some other program writes the file: a length field and records.
ForeignFile(len_field, records) ==
    /\ disk' = [exists |-> TRUE,
                bytes  |-> <<len_field>> \o
                           [i \in 1..records |->
                               [score |-> 0, type |-> "STATISTICAL", timestamp |-> 0]]]
    /\ ret' = Ret("foreign_file", "written", <<>>, "none")
    /\ UNCHANGED detector
    /\ UNCHANGED <<rng, kernel, threads, session, loaded, saved, corrupt>>
    /\ UNCHANGED <<memVars, ledgerVars, hashVars>>

\* fossil_ai_anom_t *fossil_ai_anom_load(filepath): the length is read into
\* history_len as stored, then that many records are read into the array,
\* as far as the file goes.  More than MAX_HISTORY records run over the end
\* of the array (overrun_crash: whether that ends the process).
fossil_ai_anom_load(null, overrun_crash) ==
    /\ IF null # "none" \/ ~disk.exists
       THEN /\ ret' = Ret("anom_load", "NULL", <<>>, null)
            /\ UNCHANGED detector
       ELSE LET history_len == IF Len(disk.bytes) >= 1 THEN disk.bytes[1] ELSE 0
                available   == IF Len(disk.bytes) >= 1 THEN Len(disk.bytes) - 1 ELSE 0
                nread       == Min(history_len, available)
            IN  IF nread > FOSSIL_AI_ANOM_MAX_HISTORY /\ overrun_crash
                THEN /\ ret' = Ret("anom_load", "SIGSEGV", <<>>, null)
                     /\ UNCHANGED detector
                ELSE /\ detector' =
                            [history     |-> SubSeq(disk.bytes, 2,
                                                    1 + Min(nread, FOSSIL_AI_ANOM_MAX_HISTORY)),
                             history_len |-> history_len]
                     /\ ret' = Ret("anom_load", "detector", <<>>, null)
    /\ UNCHANGED disk
    /\ UNCHANGED <<rng, kernel, threads, session, loaded, saved, corrupt>>
    /\ UNCHANGED <<memVars, ledgerVars, hashVars>>

InitAnom ==
    /\ detector = fossil_ai_anom_create
    /\ rng = 0 /\ kernel = <<>> /\ threads = <<>> /\ session = <<>>
    /\ MemIdle /\ RetIdle /\ DiskIdle /\ LedgerIdle /\ HashIdle

NextAnom ==
    \/ \E null \in {"none", "detector", "data", "score"}, data \in AnomData,
          threshold \in AnomThresholds, now \in 0..MaxTime :
          Alive /\ fossil_ai_anom_detect_statistical(null, data, threshold, now)
    \/ \E null \in {"none", "detector", "filepath"}, fopen_ok \in BOOLEAN :
          Alive /\ fossil_ai_anom_save(null, fopen_ok)
    \/ \E len_field \in 0..(FOSSIL_AI_ANOM_MAX_HISTORY + 2),
          records \in 0..(FOSSIL_AI_ANOM_MAX_HISTORY + 1) :
          Alive /\ ForeignFile(len_field, records)
    \/ \E null \in {"none", "filepath"}, overrun_crash \in BOOLEAN :
          Alive /\ fossil_ai_anom_load(null, overrun_crash)

SpecAnom == InitAnom /\ [][NextAnom]_vars

\* C30: the history length of a detector never exceeds the history capacity,
\* after any detect calls and after a load from any file.
C30_HistoryWithinCapacity ==
    detector.history_len <= FOSSIL_AI_ANOM_MAX_HISTORY

====
